---- MODULE Spec2Model ----
(***************************************************************************)
(* Model of the database access manager of caddy-duckdb-module: the schema *)
(* cache, the prepared-statement cache, and the transactional mutation     *)
(* executor with conflict retry (package database).                        *)
(*                                                                         *)
(* Go strings are modelled as tuples of one-character strings, so that     *)
(* strings.ToLower, strings.Contains, the string comparison of the         *)
(* in-place sort and the prefix slice stmtKey[:len(table)] are computed as *)
(* the code computes them.                                                 *)
(***************************************************************************)
EXTENDS Integers, Sequences, FiniteSets, TLC

(***************************************************************************)
(* Strings                                                                 *)
(***************************************************************************)

\* The characters the model uses, in ASCII order (for the comparison s[i] > s[j]).
Ascii ==
    <<" ", "!", ",", "0", "1", "2", "3", ":", "=",
      "A", "B", "C", "D", "E", "F", "G", "H", "I", "J", "K", "L", "M",
      "N", "O", "P", "Q", "R", "S", "T", "U", "V", "W", "X", "Y", "Z", "_",
      "a", "b", "c", "d", "e", "f", "g", "h", "i", "j", "k", "l", "m",
      "n", "o", "p", "q", "r", "s", "t", "u", "v", "w", "x", "y", "z">>

Code(ch) == CHOOSE i \in 1..Len(Ascii) : Ascii[i] = ch

\* Position of "A" and of "a" in Ascii: upper case letter k maps to lower case letter k.
UpperA == Code("A")
LowerA == Code("a")

LowerChar(ch) ==
    LET c == Code(ch)
    IN  IF c >= UpperA /\ c < UpperA + 26 THEN Ascii[c - UpperA + LowerA] ELSE ch

\* strings.ToLower
ToLower(s) == [i \in 1..Len(s) |-> LowerChar(s[i])]

\* strings.Contains
Contains(s, sub) ==
    \E i \in 0..(Len(s) - Len(sub)) :
        \A j \in 1..Len(sub) : s[i + j] = sub[j]

\* Go's string comparison a > b (bytewise lexicographic).
RECURSIVE StrGreater(_, _)
StrGreater(a, b) ==
    IF a = <<>> THEN FALSE
    ELSE IF b = <<>> THEN TRUE
    ELSE IF Code(Head(a)) # Code(Head(b)) THEN Code(Head(a)) > Code(Head(b))
    ELSE StrGreater(Tail(a), Tail(b))

\* strings.Join
RECURSIVE Join(_, _)
Join(parts, sep) ==
    IF parts = <<>> THEN <<>>
    ELSE IF Len(parts) = 1 THEN parts[1]
    ELSE parts[1] \o sep \o Join(Tail(parts), sep)

\* The decimal digit of a small number, as fmt's %d prints it.
Digit(n) == Ascii[Code("0") + n]

(***************************************************************************)
(* Errors: an error is the chain of its wrapping layers, outermost first;  *)
(* Error() of a layer built with %w is its prefix followed by the cause's  *)
(* text.                                                                   *)
(***************************************************************************)

Nil == <<>>

\* Engine error texts (the driver's err.Error()).
EngineMsg ==
    <<  <<"T","r","a","n","s","a","c","t","i","o","n"," ","c","o","n","f","l","i","c","t","!">>,
        <<"E","r","r","o","r",":"," ","C","o","n","f","l","i","c","t"," ","o","n"," ","t","a","b","l","e"," ","t">>,
        <<"T","R","A","N","S","A","C","T","I","O","N"," ","C","O","N","F","L","I","C","T">>,
        <<"C","o","n","f","l","i","c","t"," ","o","n"," ","t","u","p","l","e","!">>,
        <<"d","u","p","l","i","c","a","t","e"," ","k","e","y">>  >>

OpWord(op) ==
    CASE op \in {"Insert"} -> <<"i","n","s","e","r","t">>
      [] op \in {"Update", "UpdateWithFilters"} -> <<"u","p","d","a","t","e">>
      [] op \in {"Delete", "DeleteWithFilters"} -> <<"d","e","l","e","t","e">>

FailedTo == <<"f","a","i","l","e","d"," ","t","o"," ">>

\* The text one layer puts in front of its cause.
LayerText(l) ==
    CASE l.k = "engine"  -> EngineMsg[l.m]
      [] l.k = "prepare" -> FailedTo \o <<"p","r","e","p","a","r","e"," ">> \o OpWord(l.op)
                            \o <<" ","s","t","a","t","e","m","e","n","t",":"," ">>
      [] l.k = "stmt"    -> FailedTo \o <<"p","r","e","p","a","r","e"," ","s","t","a","t","e","m","e","n","t",":"," ">>
      [] l.k = "begin"   -> FailedTo \o <<"b","e","g","i","n"," ","t","r","a","n","s","a","c","t","i","o","n",":"," ">>
      [] l.k = "execute" -> FailedTo \o <<"e","x","e","c","u","t","e"," ">> \o OpWord(l.op) \o <<":"," ">>
      [] l.k = "commit"  -> FailedTo \o <<"c","o","m","m","i","t"," ","t","r","a","n","s","a","c","t","i","o","n",":"," ">>
      [] l.k = "retries" -> <<"t","r","a","n","s","a","c","t","i","o","n"," ","f","a","i","l","e","d"," ","a","f","t","e","r"," ">>
                            \o <<Digit(l.n)>> \o <<" ","r","e","t","r","i","e","s",":"," ">>
      [] l.k = "reject"  -> <<"n","o"," ">> \o l.what \o <<" ","p","r","o","v","i","d","e","d">>
      [] l.k = "closed"  -> <<"s","q","l",":"," ","s","t","a","t","e","m","e","n","t"," ","i","s"," ","c","l","o","s","e","d">>
      [] l.k = "bind"    -> <<"b","i","n","d"," ","e","r","r","o","r">>
      [] l.k = "schema"  -> FailedTo \o <<"g","e","t"," ","t","a","b","l","e"," ","s","c","h","e","m","a",":"," ">>

\* err.Error()
RECURSIVE ErrorText(_)
ErrorText(err) ==
    IF err = Nil THEN <<>> ELSE LayerText(Head(err)) \o ErrorText(Tail(err))

\* fmt.Errorf("...: %w", err)
Wrap(layer, err) == <<layer>> \o err

EngineErr(m) == <<[k |-> "engine", m |-> m]>>

(***************************************************************************)
(* Conflict classification and retry constants                             *)
(***************************************************************************)

maxRetries == 3
baseRetryDelay == 50

ConflictSub1 == <<"t","r","a","n","s","a","c","t","i","o","n"," ","c","o","n","f","l","i","c","t">>
ConflictSub2 == <<"c","o","n","f","l","i","c","t"," ","o","n"," ","t","a","b","l","e">>

isTransactionConflictNoLower(err) ==
    /\ err # Nil
    /\ \/ Contains(ErrorText(err), ConflictSub1)
       \/ Contains(ErrorText(err), ConflictSub2)

isTransactionConflict(err) ==
    /\ err # Nil
    /\ LET errStr == ToLower(ErrorText(err))
       IN  \/ Contains(errStr, ConflictSub1)
           \/ Contains(errStr, ConflictSub2)

RECURSIVE Pow2(_)
Pow2(n) == IF n = 0 THEN 1 ELSE 2 * Pow2(n - 1)

\* delay := baseRetryDelay * time.Duration(math.Pow(2, float64(attempt))), in ms
BackoffDelay(attempt) == baseRetryDelay * Pow2(attempt)

(***************************************************************************)
(* Tables, columns, values                                                 *)
(***************************************************************************)

T  == <<"t">>
T2 == <<"t", "2">>
TableNames == {T, T2}

ColA == <<"a">>
ColB == <<"b">>
ColC == <<"c">>

\* information_schema.columns of the main database, in ordinal order.
InitialCatalog == (T :> <<ColB, ColA, ColC>>) @@ (T2 :> <<ColB, ColA>>)

\* Go's nil / SQL NULL, and the proper values of the model.
NULL == 0
Values == {1, 2}

Range(f) == {f[x] : x \in DOMAIN f}

\* All orders in which a range over a Go map with key set S can visit its keys.
Perms(S) ==
    {f \in [1..Cardinality(S) -> S] : \A i, j \in 1..Cardinality(S) : f[i] = f[j] => i = j}

\* All maps from a subset of the columns cols to values.
Maps(cols) == UNION {[D -> Values] : D \in SUBSET cols}

(***************************************************************************)
(* sortStrings: the in-place exchange sort of getOrPrepareUpdate,          *)
(* getOrPrepareDelete and UpdateWithFilters.                               *)
(***************************************************************************)

Swap(s, i, j) == [s EXCEPT ![i] = s[j], ![j] = s[i]]

RECURSIVE SortInner(_, _, _)
SortInner(s, i, j) ==
    IF j > Len(s) THEN s
    ELSE SortInner(IF StrGreater(s[i], s[j]) THEN Swap(s, i, j) ELSE s, i, j + 1)

RECURSIVE SortOuter(_, _)
SortOuter(s, i) ==
    IF i > Len(s) THEN s ELSE SortOuter(SortInner(s, i, i + 1), i + 1)

sortStringsNoSort(s) == s

sortStrings(s) == SortOuter(s, 1)

(***************************************************************************)
(* Statement cache keys                                                    *)
(***************************************************************************)

Comma == <<",">>

\* fmt.Sprintf("%s:insert", table)
InsertKey(table) == table \o <<":","i","n","s","e","r","t">>

\* fmt.Sprintf("%s:update:set=%s:where=%s", table, Join(setCols, ","), Join(whereCols, ","))
UpdateKey(table, setCols, whereCols) ==
    table \o <<":","u","p","d","a","t","e",":","s","e","t","=">> \o Join(setCols, Comma)
          \o <<":","w","h","e","r","e","=">> \o Join(whereCols, Comma)

\* fmt.Sprintf("%s:delete:where=%s", table, Join(whereCols, ","))
DeleteKey(table, whereCols) ==
    table \o <<":","d","e","l","e","t","e",":","w","h","e","r","e","=">> \o Join(whereCols, Comma)

\* The test of InvalidateTableSchema: len(stmtKey) >= len(table) && stmtKey[:len(table)] == table
KeyMatchesTable(stmtKey, table) ==
    /\ Len(stmtKey) >= Len(table)
    /\ SubSeq(stmtKey, 1, Len(table)) = table

(***************************************************************************)
(* Statements.  A statement is the structure of its SQL text: the kind,    *)
(* the table, the column list (insert), the SET assignments col = $n and   *)
(* the WHERE terms col OP $n.                                              *)
(***************************************************************************)

\* An operator table in which lte is rendered as "<".
SqlOpLteAsLt(operator) ==
    CASE operator = "eq"   -> "="
      [] operator = "ne"   -> "!="
      [] operator = "gt"   -> ">"
      [] operator = "gte"  -> ">="
      [] operator = "lt"   -> "<"
      [] operator = "lte"  -> "<"
      [] operator = "like" -> "LIKE"
      [] operator = "in"   -> "IN"
      [] OTHER             -> "="

\* Filter.ToSQL: the SQL operator of a filter operator; unknown operators fall to "=".
SqlOp(operator) ==
    CASE operator = "eq"   -> "="
      [] operator = "ne"   -> "!="
      [] operator = "gt"   -> ">"
      [] operator = "gte"  -> ">="
      [] operator = "lt"   -> "<"
      [] operator = "lte"  -> "<="
      [] operator = "like" -> "LIKE"
      [] operator = "in"   -> "IN"
      [] OTHER             -> "="

\* Filter.ToSQL(paramIndex): the term and the value to bind.
ToSQL(f, paramIndex) ==
    [clause |-> [col |-> f.Column, op |-> SqlOp(f.Operator), param |-> paramIndex],
     val    |-> f.Value]

\* The WHERE loop of UpdateWithFilters / DeleteWithFilters / Select / Count:
\* the value is appended, and paramIndex advanced, only when val != nil.
RECURSIVE WhereLoop(_, _, _, _)
WhereLoop(filters, paramIndex, clauses, values) ==
    IF filters = <<>> THEN [clauses |-> clauses, values |-> values]
    ELSE LET r == ToSQL(Head(filters), paramIndex)
         IN  WhereLoop(Tail(filters),
                       IF r.val # NULL THEN paramIndex + 1 ELSE paramIndex,
                       Append(clauses, r.clause),
                       IF r.val # NULL THEN Append(values, r.val) ELSE values)

\* "col = $i" for i = first, first+1, ...
EqClauses(cols, first) ==
    [i \in 1..Len(cols) |-> [col |-> cols[i], op |-> "=", param |-> first + i - 1]]

SetClauses(cols) == [i \in 1..Len(cols) |-> [col |-> cols[i], param |-> i]]

\* INSERT INTO table (columns) VALUES ($1, ..., $n)
InsertStmt(table, columns) ==
    [kind |-> "insert", table |-> table, cols |-> columns, set |-> <<>>, where |-> <<>>]

\* UPDATE table SET ... WHERE ... of getOrPrepareUpdate
UpdateStmt(table, setCols, whereCols) ==
    [kind |-> "update", table |-> table, cols |-> <<>>,
     set |-> SetClauses(setCols), where |-> EqClauses(whereCols, Len(setCols) + 1)]

\* DELETE FROM table WHERE ... of getOrPrepareDelete
DeleteStmt(table, whereCols) ==
    [kind |-> "delete", table |-> table, cols |-> <<>>,
     set |-> <<>>, where |-> EqClauses(whereCols, 1)]

\* The query and values UpdateWithFilters builds before its retry loop.
UpdateWithFiltersQuery(table, set, setOrder, filters) ==
    LET setCols == sortStrings(setOrder)
        w == WhereLoop(filters, Len(setCols) + 1, <<>>,
                       [i \in 1..Len(setCols) |-> set[setCols[i]]])
    IN  [stmt |-> [kind |-> "update", table |-> table, cols |-> <<>>,
                   set |-> SetClauses(setCols), where |-> w.clauses],
         values |-> w.values]

\* The query and values DeleteWithFilters builds before its retry loop.
DeleteWithFiltersQuery(table, filters) ==
    LET w == WhereLoop(filters, 1, <<>>, <<>>)
    IN  [stmt |-> [kind |-> "delete", table |-> table, cols |-> <<>>,
                   set |-> <<>>, where |-> w.clauses],
         values |-> w.values]

\* A Sort.ToSQL that compares the direction as it was given.
SortToSQLExact(s) ==
    [col |-> s.Column, dir |-> IF s.Direction = <<"d","e","s","c">> THEN "DESC" ELSE "ASC"]

\* Sort.ToSQL: "column DESC" or "column ASC"
SortToSQL(s) ==
    [col |-> s.Column,
     dir |-> IF ToLower(s.Direction) = <<"d","e","s","c">> THEN "DESC" ELSE "ASC"]

\* The query and values of Select: WHERE from the filters, ORDER BY from the sorts in
\* the order given, LIMIT and OFFSET only when positive.
SelectQuery(table, filters, sorts, limit, offset) ==
    LET w == WhereLoop(filters, 1, <<>>, <<>>)
    IN  [stmt |-> [kind |-> "select", table |-> table, where |-> w.clauses,
                   order |-> [i \in 1..Len(sorts) |-> SortToSQL(sorts[i])],
                   limit |-> IF limit > 0 THEN <<limit>> ELSE <<>>,
                   offset |-> IF offset > 0 THEN <<offset>> ELSE <<>>],
         values |-> w.values]

\* A Count that ignores its filters.
CountQueryNoWhere(table, filters) ==
    [stmt |-> [kind |-> "count", table |-> table, cols |-> <<>>, set |-> <<>>, where |-> <<>>],
     values |-> <<>>]

\* The query and values of Count.
CountQuery(table, filters) ==
    LET w == WhereLoop(filters, 1, <<>>, <<>>)
    IN  [stmt |-> [kind |-> "count", table |-> table, cols |-> <<>>,
                   set |-> <<>>, where |-> w.clauses],
         values |-> w.values]

\* Insert's normalisation: one value per table column, nil for omitted columns.
\* A normalisation that binds the values in sorted column order.
NormalizeSorted(columns, data) ==
    LET sorted == sortStrings(columns)
    IN  [i \in 1..Len(columns) |-> IF sorted[i] \in DOMAIN data THEN data[sorted[i]] ELSE NULL]

Normalize(columns, data) ==
    [i \in 1..Len(columns) |-> IF columns[i] \in DOMAIN data THEN data[columns[i]] ELSE NULL]

(***************************************************************************)
(* State                                                                   *)
(***************************************************************************)

VARIABLES
    tableSchemas,   \* Manager.tableSchemas: table -> cached column list
    preparedStmts,  \* Manager.preparedStmts: statement key -> statement handle
    stmts,          \* the *sql.Stmt handles prepared so far: [stmt, closed]
    catalog,        \* the engine's data dictionary: table -> column list
    rows,           \* the engine's committed rows: table -> sequence of [vals, ver, live]
    txs,            \* per worker: the *sql.Tx transactions its current call has begun
    commitSeq,      \* the engine's commit counter
    call,           \* per worker: the mutation call it is executing; its field log is
                    \* history: how each round of fn() ended (conflict, error, ok)
    dictQueries     \* history: per table, how often information_schema.columns was queried

\* The Authorizer: the credential store (the tables of authDB), its two caches,
\* the clock, and the Authorizer call each caller is executing.
VARIABLES
    roles,            \* table roles: the set of role_name
    api_keys,         \* table api_keys: key -> [role_name, created_at, expires_at, is_active]
    permissions,      \* table permissions: <<role_name, table_name>> -> the five flags
    permissionCache,  \* cache key -> [val, expiresAt, put]
    apiKeyCache,      \* key -> [val, expiresAt, put]
    now,              \* time.Now()
    acall             \* per caller: the Authorizer call it is executing

\* The Manager's two pools, the tables the credential store holds, and the
\* construction and shutdown of the Manager.
VARIABLES
    mainDB,      \* Manager.mainDB: "nil", "open" or "closed"
    authDB,      \* Manager.authDB: "nil", "open" or "closed"
    authTables,  \* the table names of the credential store's information_schema.tables
    life,        \* the NewManager or Close call in progress and what the last one returned
    queries,     \* per caller: its QueryMain or QueryAuth call, the call's context, the
                 \* cursor it returned and the goroutine it started
    sqlgen,      \* the last query built from filter and sort terms: its input and result
    http         \* per client: the HTTP request in progress, its response, and
                 \* history: which handlers and which Manager calls it reached

authVars == <<roles, api_keys, permissions, permissionCache, apiKeyCache, now, acall>>

mgrVars == <<mainDB, authDB, authTables, life>>

svcVars == <<mgrVars, queries, sqlgen, http>>

\* What the construction and the shutdown of the Manager leave alone, and what a
\* cursor-returning query leaves alone.
notMgr == <<queries, sqlgen, http>>

notQueries == <<mgrVars, sqlgen, http>>

notSqlgen == <<mgrVars, queries, http>>

dbVars == <<tableSchemas, preparedStmts, stmts, catalog, rows, txs, commitSeq, call, dictQueries>>

vars == <<tableSchemas, preparedStmts, stmts, catalog, rows, txs, commitSeq, call, dictQueries,
          roles, api_keys, permissions, permissionCache, apiKeyCache, now, acall,
          mainDB, authDB, authTables, life, queries, sqlgen, http>>

(***************************************************************************)
(* Authorizer: data                                                        *)
(***************************************************************************)

\* defaultCacheTTL, in minutes; the clock counts minutes.
defaultCacheTTL == 5

OperationCreate == <<"c","r","e","a","t","e">>
OperationRead   == <<"r","e","a","d">>
OperationUpdate == <<"u","p","d","a","t","e">>
OperationDelete == <<"d","e","l","e","t","e">>
OperationQuery  == <<"q","u","e","r","y">>

Operations == {OperationCreate, OperationRead, OperationUpdate, OperationDelete, OperationQuery}

\* The table_name of a wildcard permission row.
Wildcard == <<"*">>

\* fmt.Sprintf("%s:%s:%s", roleName, tableName, operation)
CacheKey(roleName, tableName, operation) ==
    roleName \o <<":">> \o tableName \o <<":">> \o operation

\* A Permission's five flags.
Flags(c, r, u, d, q) ==
    [CanCreate |-> c, CanRead |-> r, CanUpdate |-> u, CanDelete |-> d, CanQuery |-> q]

\* A *time.Time: NoTime is nil, At(t) points to the time t.
NoTime == <<>>
At(t) == <<t>>

\* t.Before(u)
NeverBefore(t, u) == FALSE

Before(t, u) == t < u

\* expirable.LRU with the entries c.  Get serves an entry until its expiration time
\* has passed; Add stores the value with a new expiration time, ttl from now; the
\* field put is history: when the entry was added.  The capacities (1000, 500) are
\* never reached by the keys used here, so no entry is evicted for space.
LRULive(c, k) == k \in DOMAIN c /\ ~(now > c[k].expiresAt)

LRUGetNoExpiry(c, k) == k \in DOMAIN c

LRUGet(c, k) == LRULive(c, k)

LRUAdd(c, k, v) ==
    (k :> [val |-> v, expiresAt |-> now + defaultCacheTTL, put |-> now]) @@ c

LRURemove(c, k) == [x \in DOMAIN c \ {k} |-> c[x]]

LRUPurge(c) == <<>>

\* The request of an Authorizer call.
AReq(op, key, role, table, operation, perm, exp) ==
    [op |-> op, key |-> key, role |-> role, table |-> table, operation |-> operation,
     perm |-> perm, exp |-> exp]

NoReq == AReq("none", <<>>, <<>>, <<>>, <<>>, Flags(FALSE, FALSE, FALSE, FALSE, FALSE), NoTime)

NoKey == [Key |-> <<>>, RoleName |-> <<>>, ExpiresAt |-> NoTime, IsActive |-> FALSE]

\* What is kept of a caller's previous call (history).
NoPrev == [req |-> NoReq, err |-> "nil", allowed |-> FALSE, hit |-> FALSE, dropped |-> {}]

\* A caller between calls.  err is the error returned ("nil" for nil), allowed and
\* apikey the value returned; hit, dropped, read and prev are history: whether the
\* cache answered, which cache entries the call's invalidation removed, the value of
\* time.Now() the call compared the expiration with, and the previous call.
IdleACall ==
    [pc |-> "idle", req |-> NoReq, err |-> "nil", allowed |-> FALSE, apikey |-> NoKey,
     hit |-> FALSE, dropped |-> {}, read |-> 0, prev |-> NoPrev]

\* The state after NewAuthorizer over a credential store holding the roles rs, the
\* credentials ks and the permissions ps, with callers 1..n, at time t.
InitAuth(n, rs, ks, ps, t) ==
    /\ roles = rs
    /\ api_keys = ks
    /\ permissions = ps
    /\ permissionCache = <<>>
    /\ apiKeyCache = <<>>
    /\ now = t
    /\ acall = [p \in 1..n |-> IdleACall]

RoleR == <<"r">>
RoleS == <<"s">>

NoStmt == [kind |-> "none", table |-> <<>>, cols |-> <<>>, set |-> <<>>, where |-> <<>>]
NilResult == [nil |-> TRUE, RowsAffected |-> 0]

\* What is kept of a worker's last successful CountWithFilters (history).
NoDry == [n |-> 0, table |-> <<>>, filters |-> <<>>, count |-> 0]

IdleCall(n) ==
    [pc |-> "idle", n |-> n, op |-> "none", table |-> <<>>, data |-> <<>>, where |-> <<>>,
     filters |-> <<>>, columns |-> <<>>, setCols |-> <<>>, whereCols |-> <<>>, key |-> <<>>,
     stmt |-> 0, query |-> NoStmt, values |-> <<>>, tx |-> 0, attempt |-> 0, tries |-> 0,
     lastErr |-> Nil, sleeps |-> <<>>, affected |-> 0, result |-> NilResult, err |-> Nil,
     log |-> <<>>, count |-> 0, dry |-> NoDry]

InitialRows ==
    (T :> << [vals |-> (ColB :> 1) @@ (ColA :> 1) @@ (ColC :> 1), ver |-> 0, live |-> TRUE] >>)
    @@ (T2 :> << [vals |-> (ColB :> 1) @@ (ColA :> 1), ver |-> 0, live |-> TRUE] >>)

\* The tables initAuthSchema requires.
requiredTables == <<"roles", "api_keys", "permissions">>

\* The lifecycle caller.  err is the error of the last call that returned ("nil" for
\* nil); mgr tells whether NewManager returned a Manager; err1 is the error of
\* Close's first pool.  History: unreached tells whether an Open or a Ping failed,
\* closes counts the Close calls that returned.
IdleLife ==
    [pc |-> "idle", op |-> "none", err |-> "nil", mgr |-> FALSE, unreached |-> FALSE,
     err1 |-> "nil", closes |-> 0]

\* A Manager that NewManager returned over an initialised credential store.
InitPools ==
    /\ mainDB = "open"
    /\ authDB = "open"
    /\ authTables = Range(requiredTables)
    /\ life = [IdleLife EXCEPT !.pc = "done", !.op = "NewManager", !.mgr = TRUE]

\* The Manager with no cursor-returning query under way.
NoGen == [fn |-> "none"]

InitServing == InitPools /\ queries = <<>> /\ sqlgen = NoGen /\ http = <<>>

\* The Manager's caches and the engine behind the main pool, with workers 1..n.
InitEngine(n) ==
    /\ tableSchemas = <<>>
    /\ preparedStmts = <<>>
    /\ stmts = <<>>
    /\ catalog = InitialCatalog
    /\ rows = InitialRows
    /\ txs = [p \in 1..n |-> <<>>]
    /\ commitSeq = 0
    /\ call = [p \in 1..n |-> IdleCall(0)]
    /\ dictQueries = [t \in TableNames |-> 0]

\* The Manager after NewManager, with workers 1..n.
InitDB(n) == InitEngine(n) /\ InitServing

\* The state after NewManager and NewAuthorizer, with workers 1..n.
InitWith(n) == InitDB(n) /\ InitAuth(1, {RoleR}, <<>>, <<>>, 1)

(***************************************************************************)
(* The embedded engine                                                     *)
(***************************************************************************)

\* The message of the engine's write-write conflict error.
ConflictMsg == 1

NumParams(stmt) ==
    IF stmt.kind = "insert" THEN Len(stmt.cols)
    ELSE LET ps == {stmt.set[i].param : i \in DOMAIN stmt.set}
                   \cup {stmt.where[i].param : i \in DOMAIN stmt.where}
         IN  IF ps = {} THEN 0 ELSE CHOOSE m \in ps : \A q \in ps : q <= m

Cmp(op, v, x) ==
    CASE op = "="    -> v = x
      [] op = "!="   -> v # x
      [] op = ">"    -> v > x
      [] op = ">="   -> v >= x
      [] op = "<"    -> v < x
      [] op = "<="   -> v <= x
      [] op = "LIKE" -> v = x
      [] op = "IN"   -> v = x

\* Whether a row satisfies a WHERE term; a comparison with NULL is not true.
Holds(cl, vals, values) ==
    /\ cl.col \in DOMAIN vals
    /\ vals[cl.col] # NULL
    /\ values[cl.param] # NULL
    /\ Cmp(cl.op, vals[cl.col], values[cl.param])

Matched(stmt, values) ==
    {i \in DOMAIN rows[stmt.table] :
        /\ rows[stmt.table][i].live
        /\ \A k \in DOMAIN stmt.where : Holds(stmt.where[k], rows[stmt.table][i].vals, values)}

\* Rows of table t that an open transaction of another worker has written.
LockedByOther(t, p) ==
    UNION {txs[q][x].ids : <<q, x>> \in
            {qx \in (DOMAIN txs) \X (1..maxRetries) :
                /\ qx[1] # p
                /\ qx[2] \in DOMAIN txs[qx[1]]
                /\ txs[qx[1]][qx[2]].state = "open"
                /\ txs[qx[1]][qx[2]].table = t}}

\* The row an INSERT statement writes: the bound value for each listed column.
InsertedVals(stmt, values) ==
    [c \in Range(catalog[stmt.table]) |->
        IF \E i \in DOMAIN stmt.cols : stmt.cols[i] = c
        THEN values[CHOOSE i \in DOMAIN stmt.cols : stmt.cols[i] = c]
        ELSE NULL]

\* Executing a statement in worker p's transaction x: an error, or the pending write.
EngineExec(stmt, values, p, x) ==
    IF Len(values) # NumParams(stmt)
    THEN [err |-> <<[k |-> "bind"]>>]
    ELSE IF stmt.kind = "insert"
    THEN [err |-> Nil, kind |-> "insert", ids |-> {}, vals |-> InsertedVals(stmt, values), affected |-> 1]
    ELSE LET m == Matched(stmt, values)
             t == stmt.table
         IN  IF \/ m \cap LockedByOther(t, p) # {}
                \/ \E i \in m : rows[t][i].ver > txs[p][x].snap
             THEN [err |-> EngineErr(ConflictMsg)]
             ELSE [err |-> Nil, kind |-> stmt.kind, ids |-> m,
                   vals |-> [i \in DOMAIN stmt.set |-> [col |-> stmt.set[i].col, val |-> values[stmt.set[i].param]]],
                   affected |-> Cardinality(m)]

\* The committed rows of table t after transaction x commits.
Applied(x, t) ==
    LET cur == rows[t]
        v == commitSeq + 1
    IN  IF x.table # t THEN cur
        ELSE CASE x.kind = "insert" -> Append(cur, [vals |-> x.vals, ver |-> v, live |-> TRUE])
               [] x.kind = "update" ->
                    [i \in DOMAIN cur |->
                        IF i \in x.ids
                        THEN [cur[i] EXCEPT !.ver = v,
                                !.vals = [c \in DOMAIN cur[i].vals |->
                                    IF \E k \in DOMAIN x.vals : x.vals[k].col = c
                                    THEN x.vals[CHOOSE k \in DOMAIN x.vals : x.vals[k].col = c].val
                                    ELSE cur[i].vals[c]]]
                        ELSE cur[i]]
               [] x.kind = "delete" ->
                    [i \in DOMAIN cur |->
                        IF i \in x.ids THEN [cur[i] EXCEPT !.ver = v, !.live = FALSE] ELSE cur[i]]
               [] OTHER -> cur

\* BEGIN TRANSACTION: the snapshot is the commit counter at this moment.
NewTx(c) ==
    [attempt |-> c.attempt, state |-> "open", snap |-> commitSeq,
     kind |-> "none", table |-> c.table, ids |-> {}, vals |-> <<>>, affected |-> 0]

(***************************************************************************)
(* retryOnConflict                                                         *)
(***************************************************************************)

\* History: how a round of fn() that returned e is classified.
LogEntry(e) == IF isTransactionConflict(e) THEN "conflict" ELSE "error"

\* The terminal error after the loop.
Exhausted(lastErr) == Wrap([k |-> "retries", n |-> maxRetries], lastErr)

\* A retry loop that runs one round too many.
AfterErrorFourAttempts(c, e) ==
    LET d == [c EXCEPT !.tx = 0, !.log = Append(c.log, LogEntry(e))]
    IN  IF ~isTransactionConflict(e)
        THEN [d EXCEPT !.pc = "done", !.err = e]
        ELSE IF c.attempt < maxRetries
        THEN [d EXCEPT !.pc = "sleep", !.lastErr = e]
        ELSE [d EXCEPT !.pc = "done", !.lastErr = e, !.attempt = c.attempt + 1,
                       !.err = Exhausted(e)]

\* What retryOnConflict does when fn() returned the error e in loop round c.attempt:
\* return e, or note it and sleep, or leave the loop and return the wrapped last error.
AfterError(c, e) ==
    LET d == [c EXCEPT !.tx = 0, !.log = Append(c.log, LogEntry(e))]
    IN  IF ~isTransactionConflict(e)
        THEN [d EXCEPT !.pc = "done", !.err = e]
        ELSE IF c.attempt < maxRetries - 1
        THEN [d EXCEPT !.pc = "sleep", !.lastErr = e]
        ELSE [d EXCEPT !.pc = "done", !.lastErr = e, !.attempt = c.attempt + 1,
                       !.err = Exhausted(e)]

\* The first step of fn(): the statement cache for Insert, Update and Delete,
\* BeginTxMain for the filter-based mutations.
FirstStep(op) == IF op \in {"Insert", "Update", "Delete"} THEN "load" ELSE "begin"

\* Entering fn() for loop round c.attempt.
StartAttempt(c) == [c EXCEPT !.pc = FirstStep(c.op), !.tries = c.tries + 1]

\* tx.Rollback(), deferred in fn(): a no-op on a transaction that is done.
RolledBackKeepOpen(p, x) == txs

RolledBack(p, x) ==
    IF x # 0 /\ txs[p][x].state = "open"
    THEN [txs EXCEPT ![p][x].state = "rolledback"]
    ELSE txs

(***************************************************************************)
(* Mutation calls, step by step.  A step ends at a call into the engine or *)
(* into a cache; a step that fails includes the deferred Rollback and      *)
(* retryOnConflict's handling of the error.                                *)
(***************************************************************************)

Reject(c, what) ==
    [c EXCEPT !.pc = "done", !.err = <<[k |-> "reject", what |-> what]>>]

WData    == <<"d","a","t","a">>
WWhere   == <<"w","h","e","r","e"," ","c","l","a","u","s","e">>
WFilters == <<"f","i","l","t","e","r","s">>

\* The safety checks at the head of the five mutations: what is missing, or Nil.
ValidateNoWhere(r) ==
    IF r.op \in {"Insert", "Update", "UpdateWithFilters"} /\ DOMAIN r.data = {} THEN WData
    ELSE Nil

Validate(r) ==
    CASE r.op = "Insert" -> IF DOMAIN r.data = {} THEN WData ELSE Nil
      [] r.op = "Update" -> IF DOMAIN r.data = {} THEN WData
                            ELSE IF DOMAIN r.where = {} THEN WWhere ELSE Nil
      [] r.op = "UpdateWithFilters" -> IF DOMAIN r.data = {} THEN WData
                                       ELSE IF Len(r.filters) = 0 THEN WFilters ELSE Nil
      [] r.op = "Delete" -> IF DOMAIN r.where = {} THEN WWhere ELSE Nil
      [] r.op = "DeleteWithFilters" -> IF Len(r.filters) = 0 THEN WFilters ELSE Nil

\* Entry of Insert / Update / UpdateWithFilters / Delete / DeleteWithFilters with the
\* request r: the safety checks, and what precedes the retry loop (the filter-based
\* mutations build their query; Insert goes on to getTableColumns).
Call(p, In, max) ==
    /\ call[p].pc \in {"idle", "done"}
    /\ call[p].n < max
    /\ \E r \in In :
        LET c == [IdleCall(call[p].n + 1) EXCEPT !.op = r.op, !.table = r.table,
                    !.data = r.data, !.where = r.where, !.filters = r.filters,
                    !.dry = call[p].dry]
        IN  IF Validate(r) # Nil
            THEN call' = [call EXCEPT ![p] = Reject(c, Validate(r))]
            ELSE CASE r.op = "Insert" ->
                    call' = [call EXCEPT ![p] = [c EXCEPT !.pc = "cols"]]
                 [] r.op \in {"Update", "Delete"} ->
                    call' = [call EXCEPT ![p] = StartAttempt(c)]
                 [] r.op = "UpdateWithFilters" ->
                    \E setOrder \in Perms(DOMAIN r.data) :
                        LET q == UpdateWithFiltersQuery(r.table, r.data, setOrder, r.filters)
                        IN  call' = [call EXCEPT ![p] =
                                StartAttempt([c EXCEPT !.query = q.stmt, !.values = q.values])]
                 [] r.op = "DeleteWithFilters" ->
                    LET q == DeleteWithFiltersQuery(r.table, r.filters)
                    IN  call' = [call EXCEPT ![p] =
                            StartAttempt([c EXCEPT !.query = q.stmt, !.values = q.values])]
    /\ txs' = [txs EXCEPT ![p] = <<>>]
    /\ UNCHANGED <<tableSchemas, preparedStmts, stmts, catalog, rows, commitSeq, dictQueries, authVars, svcVars>>

\* A getTableColumns that stores the empty column list of a table it did not find.
GetColsStoresEmpty(p) ==
    /\ call[p].pc = "cols"
    /\ LET c == call[p]
           t == c.table
       IN  IF t \in DOMAIN tableSchemas
           THEN /\ call' = [call EXCEPT ![p] =
                        IF Len(tableSchemas[t]) = 0
                        THEN [c EXCEPT !.pc = "done", !.err = <<[k |-> "schema"]>>]
                        ELSE StartAttempt([c EXCEPT !.columns = tableSchemas[t]])]
                /\ UNCHANGED <<tableSchemas, dictQueries>>
           ELSE LET columns == IF t \in DOMAIN catalog THEN catalog[t] ELSE <<>>
                IN  /\ dictQueries' = [dictQueries EXCEPT ![t] = @ + 1]
                    /\ tableSchemas' = (t :> columns) @@ tableSchemas
                    /\ call' = [call EXCEPT ![p] =
                            IF Len(columns) = 0
                            THEN [c EXCEPT !.pc = "done", !.err = <<[k |-> "schema"]>>]
                            ELSE StartAttempt([c EXCEPT !.columns = columns])]
    /\ UNCHANGED <<preparedStmts, stmts, catalog, rows, txs, commitSeq, authVars, svcVars>>

\* CountWithFilters, which is Count: the query is built and run on the pool, outside
\* any transaction; the engine counts the committed rows that match.
CountWithFilters(p, In, max) ==
    /\ call[p].pc \in {"idle", "done"}
    /\ call[p].n < max
    /\ \E r \in In :
        /\ r.op = "CountWithFilters"
        /\ LET q == CountQuery(r.table, r.filters)
               c == [IdleCall(call[p].n + 1) EXCEPT !.op = r.op, !.table = r.table,
                        !.filters = r.filters, !.query = q.stmt, !.values = q.values,
                        !.pc = "done", !.dry = call[p].dry]
           IN  call' = [call EXCEPT ![p] =
                    IF Len(q.values) # NumParams(q.stmt)
                    THEN [c EXCEPT !.err = <<[k |-> "bind"]>>]
                    ELSE LET n == Cardinality(Matched(q.stmt, q.values))
                         IN  [c EXCEPT !.count = n,
                                       !.dry = [n |-> c.n, table |-> r.table,
                                                filters |-> r.filters, count |-> n]]]
    /\ txs' = [txs EXCEPT ![p] = <<>>]
    /\ UNCHANGED <<tableSchemas, preparedStmts, stmts, catalog, rows, commitSeq, dictQueries, authVars, svcVars>>

\* Select: the query is built and run on the pool, outside any transaction; count
\* is the number of rows the cursor yields.
Select(p, In, max) ==
    /\ call[p].pc \in {"idle", "done"}
    /\ call[p].n < max
    /\ \E r \in In :
        /\ r.op = "Select"
        /\ LET q == SelectQuery(r.table, r.filters, <<>>, 0, 0)
               c == [IdleCall(call[p].n + 1) EXCEPT !.op = r.op, !.table = r.table,
                        !.filters = r.filters, !.values = q.values,
                        !.pc = "done", !.dry = call[p].dry]
           IN  call' = [call EXCEPT ![p] =
                    IF Len(q.values) # NumParams(CountQuery(r.table, r.filters).stmt)
                    THEN [c EXCEPT !.err = <<[k |-> "bind"]>>]
                    ELSE [c EXCEPT !.count = Cardinality(Matched(q.stmt, q.values))]]
    /\ txs' = [txs EXCEPT ![p] = <<>>]
    /\ UNCHANGED <<tableSchemas, preparedStmts, stmts, catalog, rows, commitSeq, dictQueries, authVars, svcVars>>

\* getTableColumns, called by Insert before its retry loop.
GetCols(p) ==
    /\ call[p].pc = "cols"
    /\ LET c == call[p]
           t == c.table
       IN  IF t \in DOMAIN tableSchemas
           THEN /\ call' = [call EXCEPT ![p] = StartAttempt([c EXCEPT !.columns = tableSchemas[t]])]
                /\ UNCHANGED <<tableSchemas, dictQueries>>
           ELSE LET columns == IF t \in DOMAIN catalog THEN catalog[t] ELSE <<>>
                IN  /\ dictQueries' = [dictQueries EXCEPT ![t] = @ + 1]
                    /\ IF Len(columns) = 0
                       THEN /\ call' = [call EXCEPT ![p] =
                                    [c EXCEPT !.pc = "done", !.err = <<[k |-> "schema"]>>]]
                            /\ UNCHANGED tableSchemas
                       ELSE /\ tableSchemas' = (t :> columns) @@ tableSchemas
                            /\ call' = [call EXCEPT ![p] = StartAttempt([c EXCEPT !.columns = columns])]
    /\ UNCHANGED <<preparedStmts, stmts, catalog, rows, txs, commitSeq, authVars, svcVars>>

\* The cache key getOrPrepareInsert / getOrPrepareUpdate / getOrPrepareDelete builds
\* when the maps are visited in the orders setOrder and whereOrder.
StmtKey(c, setOrder, whereOrder) ==
    CASE c.op = "Insert" -> InsertKey(c.table)
      [] c.op = "Update" -> UpdateKey(c.table, sortStrings(setOrder), sortStrings(whereOrder))
      [] c.op = "Delete" -> DeleteKey(c.table, sortStrings(whereOrder))

\* First half of getOrPrepare*: build the key and look it up in preparedStmts.
Load(p) ==
    /\ call[p].pc = "load"
    /\ LET c == call[p]
       IN  \E setOrder \in Perms(IF c.op = "Update" THEN DOMAIN c.data ELSE {}),
              whereOrder \in Perms(IF c.op = "Insert" THEN {} ELSE DOMAIN c.where) :
              LET key == StmtKey(c, setOrder, whereOrder)
                  d == [c EXCEPT !.key = key,
                                 !.setCols = sortStrings(setOrder),
                                 !.whereCols = sortStrings(whereOrder)]
              IN  call' = [call EXCEPT ![p] =
                      IF key \in DOMAIN preparedStmts
                      THEN [d EXCEPT !.stmt = preparedStmts[key], !.pc = "begin"]
                      ELSE [d EXCEPT !.pc = "prepare"]]
    /\ UNCHANGED <<tableSchemas, preparedStmts, stmts, catalog, rows, txs, commitSeq, dictQueries, authVars, svcVars>>

\* The statement getOrPrepare* builds on a cache miss.
BuildStmt(c) ==
    CASE c.op = "Insert" -> InsertStmt(c.table, c.columns)
      [] c.op = "Update" -> UpdateStmt(c.table, c.setCols, c.whereCols)
      [] c.op = "Delete" -> DeleteStmt(c.table, c.whereCols)

\* Second half of getOrPrepare* on a miss: mainDB.Prepare, then preparedStmts.Store.
\* The engine answers with success or with one of the errors F.
Prepare(p, F) ==
    /\ call[p].pc = "prepare"
    /\ LET c == call[p]
       IN  \E out \in {0} \cup F :
            IF out = 0
            THEN /\ stmts' = Append(stmts, [stmt |-> BuildStmt(c), closed |-> FALSE])
                 /\ preparedStmts' = (c.key :> (Len(stmts) + 1)) @@ preparedStmts
                 /\ call' = [call EXCEPT ![p] = [c EXCEPT !.stmt = Len(stmts) + 1, !.pc = "begin"]]
            ELSE /\ call' = [call EXCEPT ![p] =
                        AfterError(c, Wrap([k |-> "prepare", op |-> c.op],
                                        Wrap([k |-> "stmt"], EngineErr(out))))]
                 /\ UNCHANGED <<stmts, preparedStmts>>
    /\ UNCHANGED <<tableSchemas, catalog, rows, txs, commitSeq, dictQueries, authVars, svcVars>>

\* BeginTxMain: mainDB.BeginTx.
BeginTx(p, F) ==
    /\ call[p].pc = "begin"
    /\ LET c == call[p]
       IN  \E out \in {0} \cup F :
            IF out = 0
            THEN /\ txs' = [txs EXCEPT ![p] = Append(txs[p], NewTx(c))]
                 /\ call' = [call EXCEPT ![p] = [c EXCEPT !.tx = Len(txs[p]) + 1, !.pc = "exec"]]
            ELSE /\ call' = [call EXCEPT ![p] = AfterError(c, Wrap([k |-> "begin"], EngineErr(out)))]
                 /\ UNCHANGED txs
    /\ UNCHANGED <<tableSchemas, preparedStmts, stmts, catalog, rows, commitSeq, dictQueries, authVars, svcVars>>

\* The values fn() binds, in the order the statement expects them.
BoundValues(c) ==
    CASE c.op = "Insert" -> Normalize(c.columns, c.data)
      [] c.op = "Update" -> [i \in 1..Len(c.setCols) |-> c.data[c.setCols[i]]]
                            \o [i \in 1..Len(c.whereCols) |-> c.where[c.whereCols[i]]]
      [] c.op = "Delete" -> [i \in 1..Len(c.whereCols) |-> c.where[c.whereCols[i]]]
      [] OTHER -> c.values

\* tx.Stmt(stmt).Exec(values...) for Insert, Update and Delete, tx.Exec(query, values...)
\* for the filter-based mutations.  A closed statement handle cannot be executed.
Exec(p, F) ==
    /\ call[p].pc = "exec"
    /\ LET c == call[p]
           prepared == c.op \in {"Insert", "Update", "Delete"}
           stmt == IF prepared THEN stmts[c.stmt].stmt ELSE c.query
       IN  \E out \in {0} \cup F :
            LET r == IF out # 0 THEN [err |-> EngineErr(out)]
                     ELSE IF prepared /\ stmts[c.stmt].closed THEN [err |-> <<[k |-> "closed"]>>]
                     ELSE EngineExec(stmt, BoundValues(c), p, c.tx)
            IN  IF r.err = Nil
                THEN /\ txs' = [txs EXCEPT ![p][c.tx] =
                            [@ EXCEPT !.kind = r.kind, !.ids = r.ids, !.vals = r.vals,
                                      !.affected = r.affected]]
                     /\ call' = [call EXCEPT ![p] = [c EXCEPT !.affected = r.affected, !.pc = "commit"]]
                ELSE /\ txs' = RolledBack(p, c.tx)
                     /\ call' = [call EXCEPT ![p] =
                            AfterError(c, Wrap([k |-> "execute", op |-> c.op], r.err))]
    /\ UNCHANGED <<tableSchemas, preparedStmts, stmts, catalog, rows, commitSeq, dictQueries, authVars, svcVars>>

\* A mutation that does not commit what it executed.
CommitSkipped(p, F) ==
    /\ call[p].pc = "commit"
    /\ LET c == call[p]
       IN  /\ txs' = RolledBack(p, c.tx)
           /\ call' = [call EXCEPT ![p] =
                    [c EXCEPT !.pc = "done", !.err = Nil, !.log = Append(c.log, "ok"),
                              !.result = [nil |-> FALSE, RowsAffected |-> c.affected]]]
    /\ UNCHANGED <<tableSchemas, preparedStmts, stmts, catalog, rows, commitSeq, dictQueries, authVars, svcVars>>

\* tx.Commit(), and on success the result and return nil.  A commit the engine
\* refuses leaves the transaction aborted.
Commit(p, F) ==
    /\ call[p].pc = "commit"
    /\ LET c == call[p]
           x == txs[p][c.tx]
       IN  \E out \in {0} \cup F :
            IF out = 0
            THEN /\ rows' = [t \in DOMAIN rows |-> Applied(x, t)]
                 /\ commitSeq' = commitSeq + 1
                 /\ txs' = [txs EXCEPT ![p][c.tx].state = "committed"]
                 /\ call' = [call EXCEPT ![p] =
                        [c EXCEPT !.pc = "done", !.err = Nil, !.log = Append(c.log, "ok"),
                                  !.result = [nil |-> FALSE, RowsAffected |-> c.affected]]]
            ELSE /\ txs' = [txs EXCEPT ![p][c.tx].state = "rolledback"]
                 /\ call' = [call EXCEPT ![p] = AfterError(c, Wrap([k |-> "commit"], EngineErr(out)))]
                 /\ UNCHANGED <<rows, commitSeq>>
    /\ UNCHANGED <<tableSchemas, preparedStmts, stmts, catalog, dictQueries, authVars, svcVars>>

\* time.Sleep(delay), then the next round of the loop.
Sleep(p) ==
    /\ call[p].pc = "sleep"
    /\ LET c == call[p]
       IN  call' = [call EXCEPT ![p] =
                StartAttempt([c EXCEPT !.sleeps = Append(c.sleeps, BackoffDelay(c.attempt)),
                                       !.attempt = c.attempt + 1])]
    /\ UNCHANGED <<tableSchemas, preparedStmts, stmts, catalog, rows, txs, commitSeq, dictQueries, authVars, svcVars>>

(***************************************************************************)
(* InvalidateTableSchema                                                   *)
(***************************************************************************)

\* The statement keys the Range callback closes and deletes for `table`.
EvictedKeys(table) == {k \in DOMAIN preparedStmts : KeyMatchesTable(k, table)}

Restrict(f, D) == [x \in D |-> f[x]]

InvalidateTableSchemaNoClose(table) ==
    /\ tableSchemas' = Restrict(tableSchemas, DOMAIN tableSchemas \ {table})
    /\ preparedStmts' = Restrict(preparedStmts, DOMAIN preparedStmts \ EvictedKeys(table))
    /\ UNCHANGED <<stmts, catalog, rows, txs, commitSeq, call, dictQueries, authVars, svcVars>>

InvalidateTableSchema(table) ==
    /\ tableSchemas' = Restrict(tableSchemas, DOMAIN tableSchemas \ {table})
    /\ stmts' = [h \in DOMAIN stmts |->
                    IF \E k \in EvictedKeys(table) : preparedStmts[k] = h
                    THEN [stmts[h] EXCEPT !.closed = TRUE]
                    ELSE stmts[h]]
    /\ preparedStmts' = Restrict(preparedStmts, DOMAIN preparedStmts \ EvictedKeys(table))
    /\ UNCHANGED <<catalog, rows, txs, commitSeq, call, dictQueries, authVars, svcVars>>

(***************************************************************************)
(* Requests and specifications                                             *)
(***************************************************************************)

Req(op, table, data, where, filters) ==
    [op |-> op, table |-> table, data |-> data, where |-> where, filters |-> filters]

Eq(col, v) == [Column |-> col, Operator |-> "eq", Value |-> v]

Faults == 1..Len(EngineMsg)

\* Bounds: the calls one worker makes under Spec.
RetryCalls == 2

\* One valid request per mutation, and every request the safety checks reject.
RetryRequests ==
    { Req("Insert", T, (ColA :> 1), <<>>, <<>>),
      Req("Update", T, (ColA :> 2), (ColB :> 1), <<>>),
      Req("UpdateWithFilters", T, (ColA :> 2), <<>>, <<Eq(ColB, 1)>>),
      Req("Delete", T, <<>>, (ColB :> 1), <<>>),
      Req("DeleteWithFilters", T, <<>>, <<>>, <<Eq(ColB, 1)>>),
      Req("Insert", T, <<>>, <<>>, <<>>),
      Req("Update", T, <<>>, (ColB :> 1), <<>>),
      Req("Update", T, (ColA :> 2), <<>>, <<>>),
      Req("UpdateWithFilters", T, <<>>, <<>>, <<Eq(ColB, 1)>>),
      Req("UpdateWithFilters", T, (ColA :> 2), <<>>, <<>>),
      Req("Delete", T, <<>>, <<>>, <<>>),
      Req("DeleteWithFilters", T, <<>>, <<>>, <<>>) }

\* One worker; the engine may fail any step with any of its errors.
Init == InitWith(1)

Next ==
    \E p \in {1} :
        \/ Call(p, RetryRequests, RetryCalls)
        \/ GetCols(p)
        \/ Load(p)
        \/ Prepare(p, Faults)
        \/ BeginTx(p, Faults)
        \/ Exec(p, Faults)
        \/ Commit(p, Faults)
        \/ Sleep(p)

Spec == Init /\ [][Next]_vars

(***************************************************************************)
(* Properties of the retry loop (Spec)                                     *)
(***************************************************************************)

RECURSIVE SumSeq(_)
SumSeq(q) == IF q = <<>> THEN 0 ELSE Head(q) + SumSeq(Tail(q))

Succeeded(c) == c.pc = "done" /\ c.err = Nil /\ ~c.result.nil
Mutations == {"Insert", "Update", "UpdateWithFilters", "Delete", "DeleteWithFilters"}

AfterRetriesText == <<"a","f","t","e","r"," ","3"," ","r","e","t","r","i","e","s">>

\* C1: for each of the five mutations, conflict, conflict, success returns success
\* after exactly 3 rounds with the two waits 50 ms and 100 ms (150 ms in total);
\* three conflicts return an error that wraps the last cause and reports 3, with the
\* same two waits; and no call ever runs a 4th round.
C1_RetrySchedule ==
    \A p \in DOMAIN call :
        LET c == call[p]
        IN  /\ c.tries <= 3
            /\ Len(c.log) <= 3
            /\ c.log = <<"conflict", "conflict", "ok">> =>
                    /\ Succeeded(c)
                    /\ c.tries = 3
                    /\ c.sleeps = <<50, 100>>
                    /\ SumSeq(c.sleeps) >= 150
            /\ c.log = <<"conflict", "conflict", "conflict">> =>
                    /\ c.pc = "done"
                    /\ c.result.nil
                    /\ c.tries = 3
                    /\ c.sleeps = <<50, 100>>
                    /\ c.err # Nil
                    /\ Tail(c.err) = c.lastErr
                    /\ isTransactionConflict(c.lastErr)
                    /\ Head(c.err) = [k |-> "retries", n |-> 3]
                    /\ Contains(ErrorText(c.err), AfterRetriesText)

\* Both cases of C1 happen.
C1_Witness ==
    \E p \in DOMAIN call :
        /\ call[p].op = "UpdateWithFilters"
        /\ call[p].log = <<"conflict", "conflict", "ok">>
        /\ Len(txs[p]) = 3
        /\ txs[p][3].state = "committed"
        /\ SumSeq(call[p].sleeps) = 150

C1_WitnessExhausted ==
    \E p \in DOMAIN call :
        /\ call[p].op = "Insert"
        /\ call[p].log = <<"conflict", "conflict", "conflict">>

\* The engine errors whose lower-cased text holds "transaction conflict" or
\* "conflict on table", read off EngineMsg by hand.
ConflictMsgs == {1, 2, 3}

\* The engine message at the bottom of an error chain (0 when there is none).
CauseMsg(e) ==
    IF e # Nil /\ e[Len(e)].k = "engine" THEN e[Len(e)].m ELSE 0

IsExhausted(e) == e # Nil /\ Head(e).k = "retries"

\* C2 as stated: a non-conflict error always ends a call that made exactly one
\* attempt and never slept.
C2_AsStated ==
    \A p \in DOMAIN call :
        LET c == call[p]
        IN  (c.pc = "done" /\ c.log # <<>> /\ c.log[Len(c.log)] = "error")
                => (c.tries = 1 /\ c.sleeps = <<>>)

\* C2, amended: an error is retried (or ends the loop as exhausted) exactly when its
\* engine message is one of the conflict messages; any other error of a round is
\* returned unchanged as the call's error, with no further round and no sleep after
\* it: the rounds before it all were conflicts, each followed by one sleep.
C2_Classification ==
    \A p \in DOMAIN call :
        LET c == call[p]
        IN  /\ c.pc = "sleep" => CauseMsg(c.lastErr) \in ConflictMsgs
            /\ (c.pc = "done" /\ IsExhausted(c.err)) => CauseMsg(c.err) \in ConflictMsgs
            /\ (c.pc = "done" /\ c.err # Nil /\ ~IsExhausted(c.err) /\ c.tries > 0) =>
                    /\ CauseMsg(c.err) \notin ConflictMsgs
                    /\ Head(c.err).k \in {"prepare", "begin", "execute", "commit"}
                    /\ c.result.nil
                    /\ Len(c.log) = c.tries
                    /\ Len(c.sleeps) = c.tries - 1
                    /\ \A i \in 1..(c.tries - 1) : c.log[i] = "conflict"
                    /\ c.log[c.tries] = "error"
            /\ (c.pc = "done" /\ c.tries = 1 /\ c.log = <<"error">>) => c.sleeps = <<>>

\* A non-conflict error in the first round, for each step that can fail.
C2_Witness ==
    \E p \in DOMAIN call :
        /\ call[p].pc = "done"
        /\ call[p].op = "Update"
        /\ call[p].log = <<"conflict", "error">>
        /\ Head(call[p].err).k = "commit"
        /\ CauseMsg(call[p].err) = 4

\* The requests the safety rules forbid.
InvalidRequest(c) ==
    \/ c.op = "Insert" /\ DOMAIN c.data = {}
    \/ c.op \in {"Update", "UpdateWithFilters"} /\ DOMAIN c.data = {}
    \/ c.op \in {"Update", "Delete"} /\ DOMAIN c.where = {}
    \/ c.op \in {"UpdateWithFilters", "DeleteWithFilters"} /\ c.filters = <<>>

\* C3: a call with an empty field map, an empty SET or an empty WHERE / filter list
\* returns an error in its first step, before any round of the retry loop and any
\* transaction, and changes neither the rows, nor the statement handles, nor the
\* schema cache, nor the statement cache.
C3_RejectedWithoutEffect ==
    [][\A p \in DOMAIN call :
        (call'[p].n = call[p].n + 1 /\ InvalidRequest(call'[p])) =>
            /\ call'[p].pc = "done"
            /\ call'[p].err # Nil
            /\ call'[p].result.nil
            /\ call'[p].tries = 0
            /\ txs'[p] = <<>>
            /\ tableSchemas' = tableSchemas
            /\ preparedStmts' = preparedStmts
            /\ stmts' = stmts
            /\ rows' = rows
            /\ commitSeq' = commitSeq
            /\ dictQueries' = dictQueries]_vars

\* A delete without WHERE rejected while both caches hold entries.
C3_Witness ==
    \E p \in DOMAIN call :
        /\ call[p].pc = "done"
        /\ call[p].op = "Delete"
        /\ DOMAIN call[p].where = {}
        /\ call[p].err # Nil
        /\ DOMAIN preparedStmts # {}
        /\ DOMAIN tableSchemas # {}

\* C4: a transaction is open only in the round that began it (so a failed round's
\* transaction is closed before the next round begins, and every round that reaches
\* the engine runs in a transaction of its own); a call commits at most one
\* transaction, and committing ends the call; when the call has returned, each of
\* its transactions is committed or rolled back.
C4_Transactions ==
    \A p \in DOMAIN call :
        LET c == call[p]
            X == txs[p]
        IN  /\ \A x \in DOMAIN X :
                    X[x].state = "open" =>
                        /\ x = c.tx
                        /\ x = Len(X)
                        /\ X[x].attempt = c.attempt
                        /\ c.pc \in {"exec", "commit"}
            /\ c.pc \in {"exec", "commit"} =>
                    /\ c.tx = Len(X)
                    /\ X[c.tx].state = "open"
                    /\ X[c.tx].attempt = c.attempt
            /\ \A x, y \in DOMAIN X : x < y => X[x].attempt < X[y].attempt
            /\ Cardinality({x \in DOMAIN X : X[x].state = "committed"}) <= 1
            /\ \A x \in DOMAIN X : X[x].state = "committed" => (x = Len(X) /\ c.pc = "done")
            /\ c.pc = "done" => \A x \in DOMAIN X : X[x].state \in {"committed", "rolledback"}

\* A call whose first round failed in Exec and whose second round committed.
C4_Witness ==
    \E p \in DOMAIN call :
        /\ call[p].pc = "done"
        /\ call[p].op = "Delete"
        /\ Len(txs[p]) = 2
        /\ txs[p][1].state = "rolledback"
        /\ txs[p][1].attempt = 0
        /\ txs[p][2].state = "committed"
        /\ txs[p][2].attempt = 1

(***************************************************************************)
(* The caches in a sequential history (SpecCache): one worker, an engine   *)
(* that does not fail, and InvalidateTableSchema at any moment.            *)
(***************************************************************************)

\* Bound: the calls the worker makes under SpecCache.
CacheCalls == 3

CacheRequests ==
    { Req("Update", T, (ColA :> 2) @@ (ColC :> 2), (ColB :> 1), <<>>),
      Req("Update", T, (ColA :> 1) @@ (ColC :> 1), (ColB :> 1), <<>>),
      Req("Update", T, (ColA :> 2), (ColB :> 1) @@ (ColC :> 1), <<>>),
      Req("Update", T2, (ColA :> 2), (ColB :> 1), <<>>),
      Req("Delete", T, <<>>, (ColB :> 2) @@ (ColA :> 2), <<>>),
      Req("Delete", T2, <<>>, (ColB :> 2), <<>>),
      Req("Insert", T, (ColB :> 2), <<>>, <<>>),
      Req("Insert", T, (ColA :> 1) @@ (ColB :> 2) @@ (ColC :> 1), <<>>, <<>>),
      Req("Insert", T2, (ColB :> 2), <<>>, <<>>) }

NextCache ==
    \/ \E p \in {1} :
        \/ Call(p, CacheRequests, CacheCalls)
        \/ GetCols(p)
        \/ Load(p)
        \/ Prepare(p, {})
        \/ BeginTx(p, {})
        \/ Exec(p, {})
        \/ Commit(p, {})
    \/ \E t \in TableNames : InvalidateTableSchema(t)

SpecCache == InitWith(1) /\ [][NextCache]_vars

\* The columns of the set S in increasing order, specified rather than computed.
SortedSeq(S) ==
    CHOOSE f \in Perms(S) : \A i, j \in DOMAIN f : i < j => StrGreater(f[j], f[i])

\* The statement key of a call, from its table, operation and column sets alone.
CanonicalKey(c) ==
    CASE c.op = "Insert" -> c.table \o <<":","i","n","s","e","r","t">>
      [] c.op = "Update" -> UpdateKey(c.table, SortedSeq(DOMAIN c.data), SortedSeq(DOMAIN c.where))
      [] c.op = "Delete" -> DeleteKey(c.table, SortedSeq(DOMAIN c.where))

UsesCache(c) == c.op \in {"Insert", "Update", "Delete"}

\* The statement the cache must hold under a call's key.
CanonicalStmt(c) ==
    CASE c.op = "Insert" -> InsertStmt(c.table, c.columns)
      [] c.op = "Update" -> UpdateStmt(c.table, SortedSeq(DOMAIN c.data), SortedSeq(DOMAIN c.where))
      [] c.op = "Delete" -> DeleteStmt(c.table, SortedSeq(DOMAIN c.where))

C7_KeyCanonical ==
    /\ \A p \in DOMAIN call :
        LET c == call[p]
        IN  (UsesCache(c) /\ c.pc \in {"prepare", "begin", "exec", "commit"}) =>
                /\ c.key = CanonicalKey(c)
                /\ c.pc # "prepare" => stmts[c.stmt].stmt = CanonicalStmt(c)
    /\ \A t \in TableNames :
        Cardinality({k \in DOMAIN preparedStmts :
            LET q == stmts[preparedStmts[k]].stmt
            IN  q.kind = "insert" /\ q.table = t}) <= 1

C7_HitReturnsCached ==
    \A p \in DOMAIN call :
        (/\ call[p].pc = "load"
         /\ call'[p].pc # "load"
         /\ CanonicalKey(call[p]) \in DOMAIN preparedStmts) =>
            /\ call'[p].pc = "begin"
            /\ call'[p].stmt = preparedStmts[CanonicalKey(call[p])]
            /\ stmts' = stmts
            /\ preparedStmts' = preparedStmts

\* C7: the key a call looks up depends only on its table, operation and column sets,
\* not on the order in which the maps are visited (for Insert not on the fields at
\* all: it is table:insert, and a table has at most one insert entry); the
\* statement found or stored under the key is the one for that column set; and a
\* lookup that finds the key returns the cached handle and prepares nothing.
C7_StatementShared == []C7_KeyCanonical /\ [][C7_HitReturnsCached]_vars

\* A second Update with the same column sets, other values, running on the handle
\* the first one prepared.
C7_Witness ==
    \E p \in DOMAIN call :
        /\ call[p].n = 2
        /\ call[p].op = "Update"
        /\ call[p].pc = "begin"
        /\ DOMAIN call[p].data = {ColA, ColC}
        /\ call[p].data[ColA] = 1
        /\ Len(stmts) = 1
        /\ call[p].stmt = 1
        /\ ~stmts[1].closed

\* The entries of table u: the schema entry, and the statement entries whose
\* statement is on u.
StmtKeysOf(u) == {k \in DOMAIN preparedStmts : stmts[preparedStmts[k]].stmt.table = u}

\* C8 as stated: InvalidateTableSchema(t) leaves every schema entry, every statement
\* entry and every statement handle of each other table as it was.
C8_AsStated ==
    [][\A t \in TableNames :
        InvalidateTableSchema(t) =>
            \A u \in TableNames \ {t} :
                /\ u \in DOMAIN tableSchemas =>
                        (u \in DOMAIN tableSchemas' /\ tableSchemas'[u] = tableSchemas[u])
                /\ \A k \in StmtKeysOf(u) :
                        /\ k \in DOMAIN preparedStmts'
                        /\ preparedStmts'[k] = preparedStmts[k]
                        /\ stmts'[preparedStmts[k]] = stmts[preparedStmts[k]]]_vars

\* C9: InvalidateTableSchema(t) leaves no schema entry for t and no statement entry
\* for t, and has closed every handle that was cached for t; a getTableColumns that
\* finds no entry queries the data dictionary.
C9_Evicts ==
    \A t \in TableNames :
        InvalidateTableSchema(t) =>
            /\ t \notin DOMAIN tableSchemas'
            /\ \A k \in StmtKeysOf(t) :
                    /\ k \notin DOMAIN preparedStmts'
                    /\ stmts'[preparedStmts[k]].closed
            /\ \A k \in DOMAIN preparedStmts' : stmts'[preparedStmts'[k]].stmt.table # t

C9_MissQueries ==
    \A p \in DOMAIN call :
        (call[p].pc = "cols" /\ call'[p].pc # "cols") =>
            dictQueries'[call[p].table] =
                IF call[p].table \in DOMAIN tableSchemas
                THEN dictQueries[call[p].table]
                ELSE dictQueries[call[p].table] + 1

C9_InvalidateEvicts == [][C9_Evicts /\ C9_MissQueries]_vars

\* After an invalidation of t that closed a cached handle, t's columns were read
\* from the data dictionary a second time.
C9_Witness ==
    /\ dictQueries[T] = 2
    /\ T \in DOMAIN tableSchemas
    /\ \E h \in DOMAIN stmts : stmts[h].closed /\ stmts[h].stmt.table = T /\ stmts[h].stmt.kind = "insert"
    /\ DOMAIN preparedStmts = {}

(***************************************************************************)
(* Insert with every field map (SpecInsert)                                *)
(***************************************************************************)

\* Bound: the calls the worker makes under SpecInsert.
InsertCalls == 2

InsertRequests ==
    {Req("Insert", t, d, <<>>, <<>>) : <<t, d>> \in
        UNION {{<<u, e>> : e \in Maps(Range(InitialCatalog[u]))} : u \in TableNames}}

NextInsert ==
    \E p \in {1} :
        \/ Call(p, InsertRequests, InsertCalls)
        \/ GetCols(p)
        \/ Load(p)
        \/ Prepare(p, {})
        \/ BeginTx(p, {})
        \/ Exec(p, {})
        \/ Commit(p, {})

SpecInsert == InitWith(1) /\ [][NextInsert]_vars

\* C10: an Insert with a non-empty field map over the table's columns succeeds, and
\* the row it adds has the supplied value in each supplied column and NULL in each
\* other column; the values were bound in the table's column order.
C10_InsertedRow ==
    \A p \in DOMAIN call :
        LET c == call[p]
            R == rows[c.table]
        IN  (c.op = "Insert" /\ DOMAIN c.data # {}) =>
                /\ c.pc \in {"exec", "commit"} =>
                        /\ Len(BoundValues(c)) = Len(catalog[c.table])
                        /\ \A i \in 1..Len(catalog[c.table]) :
                              BoundValues(c)[i] =
                                  IF catalog[c.table][i] \in DOMAIN c.data
                                  THEN c.data[catalog[c.table][i]] ELSE NULL
                /\ c.pc = "done" =>
                        /\ Succeeded(c)
                        /\ c.result.RowsAffected = 1
                        /\ DOMAIN R[Len(R)].vals = Range(catalog[c.table])
                        /\ \A col \in Range(catalog[c.table]) :
                              R[Len(R)].vals[col] =
                                  IF col \in DOMAIN c.data THEN c.data[col] ELSE NULL

\* A second insert, on the cached statement, that omits the first and the last column.
C10_Witness ==
    \E p \in DOMAIN call :
        /\ call[p].pc = "done"
        /\ call[p].n = 2
        /\ call[p].op = "Insert"
        /\ call[p].table = T
        /\ DOMAIN call[p].data = {ColA}
        /\ call[p].data[ColA] = 2
        /\ Len(stmts) = 1
        /\ rows[T][Len(rows[T])].vals = (ColB :> NULL) @@ (ColA :> 2) @@ (ColC :> NULL)

(***************************************************************************)
(* Concurrent writers on one row (SpecConc, SpecLive)                      *)
(***************************************************************************)

\* Bound: the number of concurrent workers.
ConcWorkers == 2

\* Writes to the row b = 1 of table t.
ConcRequests ==
    { Req("Update", T, (ColA :> 2), (ColB :> 1), <<>>),
      Req("UpdateWithFilters", T, (ColC :> 2), <<>>, <<Eq(ColB, 1)>>) }

\* The engine error injected under SpecConc, besides the conflicts the engine raises
\* itself in Exec: a commit the engine refuses with an error that is no conflict.
ConcFaults == {5}

\* One step of worker p, which makes one call; F are the errors a commit may meet.
Step(p, F) ==
    \/ Call(p, ConcRequests, 1)
    \/ Load(p)
    \/ Prepare(p, {})
    \/ BeginTx(p, {})
    \/ Exec(p, {})
    \/ Commit(p, F)
    \/ Sleep(p)

NextConc == \E p \in 1..ConcWorkers : Step(p, ConcFaults)

SpecConc == InitWith(ConcWorkers) /\ [][NextConc]_vars

Committed(p) == {x \in DOMAIN txs[p] : txs[p][x].state = "committed"}

RECURSIVE SumOver(_, _)
SumOver(f, S) ==
    IF S = {} THEN 0 ELSE LET x == CHOOSE y \in S : TRUE IN f[x] + SumOver(f, S \ {x})

\* C5: a call that has returned either reports success, and then exactly one of its
\* transactions committed, with the write on the contended row and the reported
\* row count; or it reports an error with a nil result, and then none of its
\* transactions committed.  Every commit reported is a commit of the engine.
C5_NoSilentLoss ==
    /\ \A p \in DOMAIN call :
        LET c == call[p]
        IN  c.pc = "done" =>
                \/ /\ c.err = Nil
                   /\ ~c.result.nil
                   /\ Cardinality(Committed(p)) = 1
                   /\ \A x \in Committed(p) :
                        /\ txs[p][x].kind = "update"
                        /\ txs[p][x].ids = {1}
                        /\ txs[p][x].affected = c.result.RowsAffected
                \/ /\ c.err # Nil
                   /\ c.result.nil
                   /\ Committed(p) = {}
    /\ commitSeq = SumOver([p \in DOMAIN call |-> Cardinality(Committed(p))], DOMAIN call)
    /\ rows[T][1].ver = commitSeq

\* One writer has committed, another has given up after three conflicts.
C5_Witness ==
    \E p, q \in DOMAIN call :
        /\ p # q
        /\ Succeeded(call[p])
        /\ call[p].op = "Update"
        /\ call[q].pc = "done"
        /\ call[q].log = <<"conflict", "conflict", "conflict">>
        /\ IsExhausted(call[q].err)
        /\ rows[T][1].vals[ColA] = 2

\* Under SpecLive the engine refuses a statement only for a write-write conflict,
\* and a worker whose statement has executed goes on to tx.Commit(): the scheduler
\* runs every goroutine that is ready to run.
NextLive == \E p \in 1..ConcWorkers : Step(p, {})

SpecLive ==
    /\ InitWith(ConcWorkers)
    /\ [][NextLive]_vars
    /\ \A p \in 1..ConcWorkers : WF_vars(Commit(p, {}))

ConflictSeen == \E p \in DOMAIN call : call[p].log # <<>> /\ call[p].log[1] = "conflict"

\* C6: once a writer has met a conflict, some writer eventually commits.
C6_SomeWriterCommits == ConflictSeen ~> (commitSeq > 0)

\* A writer has met a conflict while nothing has been committed yet.
C6_Witness ==
    /\ commitSeq = 0
    /\ \E p \in DOMAIN call : call[p].pc = "sleep" /\ call[p].log = <<"conflict", "conflict">>

(***************************************************************************)
(* Authorizer calls, step by step.  A step ends at a call into the store   *)
(* or into a cache.                                                        *)
(***************************************************************************)

Summary(c) ==
    [req |-> c.req, err |-> c.err, allowed |-> c.allowed, hit |-> c.hit, dropped |-> c.dropped]

\* Caller p enters a call with the request r.
Begin(p, r) == [IdleACall EXCEPT !.req = r, !.prev = Summary(acall[p])]

Free(p) == acall[p].pc \in {"idle", "done"}

AtStep(p, op, pc) == acall[p].pc = pc /\ acall[p].req.op = op

Return(c, err) == [c EXCEPT !.pc = "done", !.err = err]

\* An AuthenticateAPIKey that returns what the cache holds.
AuthenticateAPIKeyNoRecheck(p, In) ==
    /\ Free(p)
    /\ \E r \in In :
        /\ r.op = "AuthenticateAPIKey"
        /\ acall' = [acall EXCEPT ![p] =
                IF LRUGet(apiKeyCache, r.key)
                THEN Return([Begin(p, r) EXCEPT !.hit = TRUE, !.read = now,
                                                !.apikey = apiKeyCache[r.key].val], "nil")
                ELSE [Begin(p, r) EXCEPT !.pc = "db"]]
    /\ UNCHANGED <<roles, api_keys, permissions, permissionCache, apiKeyCache, now, dbVars, svcVars>>

\* AuthenticateAPIKey up to the cache lookup: a hit is checked against the clock
\* again and either removed and refused, or returned; a miss goes on to the store.
AuthenticateAPIKey(p, In) ==
    /\ Free(p)
    /\ \E r \in In :
        /\ r.op = "AuthenticateAPIKey"
        /\ LET c == [Begin(p, r) EXCEPT !.read = now]
           IN  IF LRUGet(apiKeyCache, r.key)
               THEN LET cached == apiKeyCache[r.key].val
                    IN  IF cached.ExpiresAt # NoTime /\ Before(cached.ExpiresAt[1], now)
                        THEN /\ apiKeyCache' = LRURemove(apiKeyCache, r.key)
                             /\ acall' = [acall EXCEPT ![p] =
                                    Return([c EXCEPT !.hit = TRUE, !.dropped = {r.key}], "expired")]
                        ELSE /\ acall' = [acall EXCEPT ![p] =
                                    Return([c EXCEPT !.hit = TRUE, !.apikey = cached], "nil")]
                             /\ UNCHANGED apiKeyCache
               ELSE /\ acall' = [acall EXCEPT ![p] = [c EXCEPT !.pc = "db"]]
                    /\ UNCHANGED apiKeyCache
    /\ UNCHANGED <<roles, api_keys, permissions, permissionCache, now, dbVars, svcVars>>

\* authenticateAPIKeyDB: the active row of the key, if any, and its expiration.
authenticateAPIKeyDB(p) ==
    /\ AtStep(p, "AuthenticateAPIKey", "db")
    /\ LET c == [acall[p] EXCEPT !.read = now]
           k == c.req.key
       IN  acall' = [acall EXCEPT ![p] =
                IF ~(k \in DOMAIN api_keys /\ api_keys[k].is_active)
                THEN Return(c, "invalid")
                ELSE IF api_keys[k].expires_at # NoTime /\ Before(api_keys[k].expires_at[1], now)
                THEN Return(c, "expired")
                ELSE [c EXCEPT !.pc = "add",
                               !.apikey = [Key |-> k, RoleName |-> api_keys[k].role_name,
                                           ExpiresAt |-> api_keys[k].expires_at,
                                           IsActive |-> api_keys[k].is_active]]]
    /\ UNCHANGED <<roles, api_keys, permissions, permissionCache, apiKeyCache, now, dbVars, svcVars>>

\* a.apiKeyCache.Add(apiKey, key); return key, nil
apiKeyCacheAdd(p) ==
    /\ AtStep(p, "AuthenticateAPIKey", "add")
    /\ apiKeyCache' = LRUAdd(apiKeyCache, acall[p].req.key, acall[p].apikey)
    /\ acall' = [acall EXCEPT ![p] = Return(acall[p], "nil")]
    /\ UNCHANGED <<roles, api_keys, permissions, permissionCache, now, dbVars, svcVars>>

\* CheckPermission up to the cache lookup.
CheckPermission(p, In) ==
    /\ Free(p)
    /\ \E r \in In :
        /\ r.op = "CheckPermission"
        /\ LET c == Begin(p, r)
               cacheKey == CacheKey(r.role, r.table, r.operation)
           IN  acall' = [acall EXCEPT ![p] =
                    IF LRUGet(permissionCache, cacheKey)
                    THEN Return([c EXCEPT !.hit = TRUE, !.allowed = permissionCache[cacheKey].val], "nil")
                    ELSE [c EXCEPT !.pc = "db"]]
    /\ UNCHANGED <<roles, api_keys, permissions, permissionCache, apiKeyCache, now, dbVars, svcVars>>

\* The row the permission query returns: the exact row first, else the wildcard row.
HasRow(roleName, tableName) ==
    <<roleName, tableName>> \in DOMAIN permissions \/ <<roleName, Wildcard>> \in DOMAIN permissions

\* A query that prefers the wildcard row.
ResolvedRowWildcardFirst(roleName, tableName) ==
    IF <<roleName, Wildcard>> \in DOMAIN permissions
    THEN permissions[<<roleName, Wildcard>>]
    ELSE permissions[<<roleName, tableName>>]

ResolvedRow(roleName, tableName) ==
    IF <<roleName, tableName>> \in DOMAIN permissions
    THEN permissions[<<roleName, tableName>>]
    ELSE permissions[<<roleName, Wildcard>>]

\* The switch on the operation: the row's flag, or no flag for an unknown operation.
KnownOperation(operation) == operation \in Operations

FlagOf(perm, operation) ==
    CASE operation = OperationCreate -> perm.CanCreate
      [] operation = OperationRead   -> perm.CanRead
      [] operation = OperationUpdate -> perm.CanUpdate
      [] operation = OperationDelete -> perm.CanDelete
      [] operation = OperationQuery  -> perm.CanQuery

\* checkPermissionDB: no row is (false, nil); a row is its flag, or the error of an
\* unknown operation.  CheckPermission returns the error, or goes on to cache the decision.
checkPermissionDB(p) ==
    /\ AtStep(p, "CheckPermission", "db")
    /\ LET c == acall[p]
           r == c.req
       IN  acall' = [acall EXCEPT ![p] =
                IF ~HasRow(r.role, r.table)
                THEN [c EXCEPT !.pc = "add", !.allowed = FALSE]
                ELSE IF KnownOperation(r.operation)
                THEN [c EXCEPT !.pc = "add", !.allowed = FlagOf(ResolvedRow(r.role, r.table), r.operation)]
                ELSE Return(c, "unknown operation")]
    /\ UNCHANGED <<roles, api_keys, permissions, permissionCache, apiKeyCache, now, dbVars, svcVars>>

\* checkPermissionDB when the query fails with an error other than sql.ErrNoRows:
\* CheckPermission returns the error and caches nothing.
checkPermissionDBError(p) ==
    /\ AtStep(p, "CheckPermission", "db")
    /\ acall' = [acall EXCEPT ![p] = Return(acall[p], "failed")]
    /\ UNCHANGED <<roles, api_keys, permissions, permissionCache, apiKeyCache, now, dbVars, svcVars>>

\* a.permissionCache.Add(cacheKey, allowed); return allowed, nil
permissionCacheAdd(p) ==
    /\ AtStep(p, "CheckPermission", "add")
    /\ LET r == acall[p].req
       IN  permissionCache' = LRUAdd(permissionCache, CacheKey(r.role, r.table, r.operation),
                                     acall[p].allowed)
    /\ acall' = [acall EXCEPT ![p] = Return(acall[p], "nil")]
    /\ UNCHANGED <<roles, api_keys, permissions, apiKeyCache, now, dbVars, svcVars>>

\* History: the live true decisions, and the live credentials, of the caches.
LiveTrue == {k \in DOMAIN permissionCache : LRULive(permissionCache, k) /\ permissionCache[k].val}
LiveKeys == {k \in DOMAIN apiKeyCache : LRULive(apiKeyCache, k)}

\* CreateAPIKey: the INSERT fails on the primary key and on the foreign key to roles.
CreateAPIKey(p, In) ==
    /\ Free(p)
    /\ \E r \in In :
        /\ r.op = "CreateAPIKey"
        /\ IF r.key \in DOMAIN api_keys \/ r.role \notin roles
           THEN /\ acall' = [acall EXCEPT ![p] = Return(Begin(p, r), "failed")]
                /\ UNCHANGED api_keys
           ELSE /\ api_keys' = (r.key :> [role_name |-> r.role, created_at |-> now,
                                           expires_at |-> r.exp, is_active |-> TRUE]) @@ api_keys
                /\ acall' = [acall EXCEPT ![p] = Return(Begin(p, r), "nil")]
    /\ UNCHANGED <<roles, permissions, permissionCache, apiKeyCache, now, dbVars, svcVars>>

\* RevokeAPIKey up to the UPDATE: no row is "API key not found".
RevokeAPIKey(p, In) ==
    /\ Free(p)
    /\ \E r \in In :
        /\ r.op = "RevokeAPIKey"
        /\ IF r.key \notin DOMAIN api_keys
           THEN /\ acall' = [acall EXCEPT ![p] = Return(Begin(p, r), "not found")]
                /\ UNCHANGED api_keys
           ELSE /\ api_keys' = [api_keys EXCEPT ![r.key].is_active = FALSE]
                /\ acall' = [acall EXCEPT ![p] = [Begin(p, r) EXCEPT !.pc = "invalidate"]]
    /\ UNCHANGED <<roles, permissions, permissionCache, apiKeyCache, now, dbVars, svcVars>>

\* An InvalidateAPIKey that purges the credential cache.
InvalidateAPIKeyPurges(p) ==
    /\ AtStep(p, "RevokeAPIKey", "invalidate")
    /\ apiKeyCache' = LRUPurge(apiKeyCache)
    /\ acall' = [acall EXCEPT ![p] =
            Return([acall[p] EXCEPT !.dropped = LiveKeys \cap {acall[p].req.key}], "nil")]
    /\ UNCHANGED <<roles, api_keys, permissions, permissionCache, now, dbVars, svcVars>>

\* InvalidateAPIKey, as called by RevokeAPIKey: a.apiKeyCache.Remove(apiKey)
InvalidateAPIKeyKeepsEntry(p) ==
    /\ AtStep(p, "RevokeAPIKey", "invalidate")
    /\ acall' = [acall EXCEPT ![p] = Return(acall[p], "nil")]
    /\ UNCHANGED <<roles, api_keys, permissions, permissionCache, apiKeyCache, now, dbVars, svcVars>>

InvalidateAPIKey(p) ==
    /\ AtStep(p, "RevokeAPIKey", "invalidate")
    /\ apiKeyCache' = LRURemove(apiKeyCache, acall[p].req.key)
    /\ acall' = [acall EXCEPT ![p] =
            Return([acall[p] EXCEPT !.dropped = LiveKeys \cap {acall[p].req.key}], "nil")]
    /\ UNCHANGED <<roles, api_keys, permissions, permissionCache, now, dbVars, svcVars>>

\* CreateRole: the INSERT fails on the primary key.
CreateRole(p, In) ==
    /\ Free(p)
    /\ \E r \in In :
        /\ r.op = "CreateRole"
        /\ IF r.role \in roles
           THEN /\ acall' = [acall EXCEPT ![p] = Return(Begin(p, r), "failed")]
                /\ UNCHANGED roles
           ELSE /\ roles' = roles \cup {r.role}
                /\ acall' = [acall EXCEPT ![p] = Return(Begin(p, r), "nil")]
    /\ UNCHANGED <<api_keys, permissions, permissionCache, apiKeyCache, now, dbVars, svcVars>>

\* CreatePermission up to the INSERT, which fails on UNIQUE(role_name, table_name)
\* and on the foreign key to roles.
CreatePermission(p, In) ==
    /\ Free(p)
    /\ \E r \in In :
        /\ r.op = "CreatePermission"
        /\ IF <<r.role, r.table>> \in DOMAIN permissions \/ r.role \notin roles
           THEN /\ acall' = [acall EXCEPT ![p] = Return(Begin(p, r), "failed")]
                /\ UNCHANGED permissions
           ELSE /\ permissions' = (<<r.role, r.table>> :> r.perm) @@ permissions
                /\ acall' = [acall EXCEPT ![p] = [Begin(p, r) EXCEPT !.pc = "purge"]]
    /\ UNCHANGED <<roles, api_keys, permissionCache, apiKeyCache, now, dbVars, svcVars>>

\* UpdatePermission up to the UPDATE: no row is "permission not found".
UpdatePermission(p, In) ==
    /\ Free(p)
    /\ \E r \in In :
        /\ r.op = "UpdatePermission"
        /\ IF <<r.role, r.table>> \notin DOMAIN permissions
           THEN /\ acall' = [acall EXCEPT ![p] = Return(Begin(p, r), "not found")]
                /\ UNCHANGED permissions
           ELSE /\ permissions' = [permissions EXCEPT ![<<r.role, r.table>>] = r.perm]
                /\ acall' = [acall EXCEPT ![p] = [Begin(p, r) EXCEPT !.pc = "purge"]]
    /\ UNCHANGED <<roles, api_keys, permissionCache, apiKeyCache, now, dbVars, svcVars>>

\* DeletePermission up to the DELETE: no row is "permission not found".
DeletePermission(p, In) ==
    /\ Free(p)
    /\ \E r \in In :
        /\ r.op = "DeletePermission"
        /\ IF <<r.role, r.table>> \notin DOMAIN permissions
           THEN /\ acall' = [acall EXCEPT ![p] = Return(Begin(p, r), "not found")]
                /\ UNCHANGED permissions
           ELSE /\ permissions' = [x \in DOMAIN permissions \ {<<r.role, r.table>>} |-> permissions[x]]
                /\ acall' = [acall EXCEPT ![p] = [Begin(p, r) EXCEPT !.pc = "purge"]]
    /\ UNCHANGED <<roles, api_keys, permissionCache, apiKeyCache, now, dbVars, svcVars>>

\* DeleteRole, first statement: DELETE FROM permissions WHERE role_name = $1
DeleteRole(p, In) ==
    /\ Free(p)
    /\ \E r \in In :
        /\ r.op = "DeleteRole"
        /\ permissions' = [x \in {y \in DOMAIN permissions : y[1] # r.role} |-> permissions[x]]
        /\ acall' = [acall EXCEPT ![p] = [Begin(p, r) EXCEPT !.pc = "keys"]]
    /\ UNCHANGED <<roles, api_keys, permissionCache, apiKeyCache, now, dbVars, svcVars>>

\* DeleteRole, second statement: DELETE FROM api_keys WHERE role_name = $1
DeleteRoleAPIKeys(p) ==
    /\ AtStep(p, "DeleteRole", "keys")
    /\ api_keys' = [k \in {y \in DOMAIN api_keys : api_keys[y].role_name # acall[p].req.role}
                        |-> api_keys[k]]
    /\ acall' = [acall EXCEPT ![p].pc = "role"]
    /\ UNCHANGED <<roles, permissions, permissionCache, apiKeyCache, now, dbVars, svcVars>>

\* DeleteRole, third statement: DELETE FROM roles WHERE role_name = $1; no row is
\* "role not found".
DeleteRoleRow(p) ==
    /\ AtStep(p, "DeleteRole", "role")
    /\ IF acall[p].req.role \notin roles
       THEN /\ acall' = [acall EXCEPT ![p] = Return(acall[p], "not found")]
            /\ UNCHANGED roles
       ELSE /\ roles' = roles \ {acall[p].req.role}
            /\ acall' = [acall EXCEPT ![p].pc = "purge"]
    /\ UNCHANGED <<api_keys, permissions, permissionCache, apiKeyCache, now, dbVars, svcVars>>

\* InvalidatePermissionCache, as called by the permission mutations and by DeleteRole:
\* a.permissionCache.Purge()
InvalidatePermissionCacheSkipped(p) ==
    /\ acall[p].pc = "purge"
    /\ acall' = [acall EXCEPT ![p] =
            IF acall[p].req.op = "DeleteRole" THEN [acall[p] EXCEPT !.pc = "purgeKeys"]
            ELSE Return(acall[p], "nil")]
    /\ UNCHANGED <<roles, api_keys, permissions, permissionCache, apiKeyCache, now, dbVars, svcVars>>

InvalidatePermissionCache(p) ==
    /\ acall[p].pc = "purge"
    /\ permissionCache' = LRUPurge(permissionCache)
    /\ acall' = [acall EXCEPT ![p] =
            LET c == [acall[p] EXCEPT !.dropped = LiveTrue]
            IN  IF c.req.op = "DeleteRole" THEN [c EXCEPT !.pc = "purgeKeys"]
                ELSE Return(c, "nil")]
    /\ UNCHANGED <<roles, api_keys, permissions, apiKeyCache, now, dbVars, svcVars>>

\* An InvalidateAPIKeyCache that leaves the cache as it is.
InvalidateAPIKeyCacheSkipped(p) ==
    /\ AtStep(p, "DeleteRole", "purgeKeys")
    /\ acall' = [acall EXCEPT ![p] =
            Return([acall[p] EXCEPT !.dropped = @ \cup LiveKeys], "nil")]
    /\ UNCHANGED <<roles, api_keys, permissions, permissionCache, apiKeyCache, now, dbVars, svcVars>>

\* InvalidateAPIKeyCache, as called by DeleteRole: a.apiKeyCache.Purge()
InvalidateAPIKeyCache(p) ==
    /\ AtStep(p, "DeleteRole", "purgeKeys")
    /\ apiKeyCache' = LRUPurge(apiKeyCache)
    /\ acall' = [acall EXCEPT ![p] =
            Return([acall[p] EXCEPT !.dropped = @ \cup LiveKeys], "nil")]
    /\ UNCHANGED <<roles, api_keys, permissions, permissionCache, now, dbVars, svcVars>>

\* Time passes.
Tick(max) ==
    /\ now < max
    /\ now' = now + 1
    /\ UNCHANGED <<roles, api_keys, permissions, permissionCache, apiKeyCache, acall, dbVars, svcVars>>

(***************************************************************************)
(* Permissions: one caller, so every history is sequential                 *)
(***************************************************************************)

\* An operation that is none of the five.
OperationDrop == <<"d","r","o","p">>

ReadOnly == Flags(FALSE, TRUE, FALSE, FALSE, FALSE)
NoAccess == Flags(FALSE, FALSE, FALSE, FALSE, FALSE)

PermRoles == {RoleR, RoleS}
PermTables == {T, Wildcard}
PermFlags == {ReadOnly, NoAccess}
CheckOperations == {OperationRead, OperationDelete, OperationDrop}

PReq(op, role, table, operation, perm) == AReq(op, <<>>, role, table, operation, perm, NoTime)

PermRequests ==
    {PReq("CheckPermission", r, T, o, NoAccess) : r \in PermRoles, o \in CheckOperations}
    \cup {PReq(op, RoleR, t, <<>>, f) :
            op \in {"CreatePermission", "UpdatePermission"}, t \in PermTables, f \in PermFlags}
    \cup {PReq(op, RoleS, Wildcard, <<>>, ReadOnly) : op \in {"CreatePermission", "UpdatePermission"}}
    \cup {PReq("DeletePermission", RoleR, t, <<>>, NoAccess) : t \in PermTables}
    \cup {PReq("DeletePermission", RoleS, Wildcard, <<>>, NoAccess)}
    \cup {PReq(op, r, <<>>, <<>>, NoAccess) : op \in {"DeleteRole", "CreateRole"}, r \in PermRoles}

InitPerm == InitDB(1) /\ InitAuth(1, {RoleR}, <<>>, <<>>, 1)

NextPerm ==
    \E p \in {1} :
        \/ CheckPermission(p, PermRequests)
        \/ checkPermissionDB(p)
        \/ permissionCacheAdd(p)
        \/ CreatePermission(p, PermRequests)
        \/ UpdatePermission(p, PermRequests)
        \/ DeletePermission(p, PermRequests)
        \/ InvalidatePermissionCache(p)
        \/ CreateRole(p, PermRequests)
        \/ DeleteRole(p, PermRequests)
        \/ DeleteRoleAPIKeys(p)
        \/ DeleteRoleRow(p)
        \/ InvalidateAPIKeyCache(p)

SpecPerm == InitPerm /\ [][NextPerm]_vars

\* The flag of a permission row for one of the five operations.
Grants(row, operation) ==
    \/ operation = OperationCreate /\ row.CanCreate
    \/ operation = OperationRead /\ row.CanRead
    \/ operation = OperationUpdate /\ row.CanUpdate
    \/ operation = OperationDelete /\ row.CanDelete
    \/ operation = OperationQuery /\ row.CanQuery

\* What the permission store decides: the exact row if there is one, else the
\* wildcard row, else false.
StoreGrants(role, table, operation) ==
    IF <<role, table>> \in DOMAIN permissions THEN Grants(permissions[<<role, table>>], operation)
    ELSE IF <<role, Wildcard>> \in DOMAIN permissions
    THEN Grants(permissions[<<role, Wildcard>>], operation)
    ELSE FALSE

Returned(c, op) == c.pc = "done" /\ c.req.op = op

NoMutationInFlight == \A p \in DOMAIN acall : acall[p].pc \in {"idle", "done", "db", "add"}

\* C12: once a permission mutation has returned, no decision that is served is a
\* stale true: every live cached true decision is granted by the store, and so is
\* every true just returned, also when true was cached before the mutation.
C12_NoStaleTrue ==
    NoMutationInFlight =>
        /\ \A r \in PermRoles, t \in PermTables, o \in CheckOperations :
                LET k == CacheKey(r, t, o)
                IN  (LRULive(permissionCache, k) /\ permissionCache[k].val) => StoreGrants(r, t, o)
        /\ \A p \in DOMAIN acall :
                (Returned(acall[p], "CheckPermission") /\ acall[p].err = "nil" /\ acall[p].allowed)
                    => StoreGrants(acall[p].req.role, acall[p].req.table, acall[p].req.operation)

\* A mutation purged a cached true for read on t of role r, and the next
\* CheckPermission for it returned false.
C12_Witness ==
    \E p \in DOMAIN acall :
        LET c == acall[p]
        IN  /\ Returned(c, "CheckPermission")
            /\ c.req = PReq("CheckPermission", RoleR, T, OperationRead, NoAccess)
            /\ c.err = "nil" /\ ~c.allowed
            /\ c.prev.req.op \in {"UpdatePermission", "DeletePermission", "DeleteRole"}
            /\ c.prev.req.role = RoleR
            /\ c.prev.err = "nil"
            /\ CacheKey(RoleR, T, OperationRead) \in c.prev.dropped

\* C17 as stated: a CheckPermission with an operation outside the five returns an
\* error, whether or not a row matches, and no decision is cached for it.
C17_AsStated ==
    /\ \A p \in DOMAIN acall :
            (Returned(acall[p], "CheckPermission") /\ acall[p].req.operation \notin Operations)
                => acall[p].err # "nil"
    /\ \A r \in PermRoles, t \in PermTables :
            CacheKey(r, t, OperationDrop) \notin DOMAIN permissionCache

(***************************************************************************)
(* Credentials: one caller, and a clock                                    *)
(***************************************************************************)

KeyK == <<"k">>
KeyJ == <<"j">>

\* The clock runs from 1 to KeyMaxTime.
KeyMaxTime == 3

KReq(op, key, role, exp) == AReq(op, key, role, <<>>, <<>>, NoAccess, exp)

KeyRequests ==
    {KReq(op, k, <<>>, NoTime) : op \in {"AuthenticateAPIKey", "RevokeAPIKey"}, k \in {KeyK, KeyJ}}
    \cup {KReq("CreateAPIKey", KeyK, RoleR, e) : e \in {NoTime, At(0), At(2)}}
    \cup {KReq("CreateAPIKey", KeyJ, r, At(2)) : r \in {RoleR, RoleS}}

InitKey == InitDB(1) /\ InitAuth(1, {RoleR}, <<>>, <<>>, 1)

NextKey ==
    \/ \E p \in {1} :
        \/ AuthenticateAPIKey(p, KeyRequests)
        \/ authenticateAPIKeyDB(p)
        \/ apiKeyCacheAdd(p)
        \/ CreateAPIKey(p, KeyRequests)
        \/ RevokeAPIKey(p, KeyRequests)
        \/ InvalidateAPIKey(p)
    \/ Tick(KeyMaxTime)

SpecKey == InitKey /\ [][NextKey]_vars

\* The credential row of key k was created with an expiration already in the past.
CreatedExpired(k) ==
    /\ k \in DOMAIN api_keys
    /\ api_keys[k].expires_at # NoTime
    /\ api_keys[k].expires_at[1] < api_keys[k].created_at

C14_RevokedFails ==
    \A p \in DOMAIN acall :
        LET c == acall[p]
        IN  /\ (Returned(c, "AuthenticateAPIKey") /\ c.err = "nil") =>
                    (c.req.key \in DOMAIN api_keys /\ api_keys[c.req.key].is_active)
            /\ (Returned(c, "RevokeAPIKey") /\ c.err = "nil") =>
                    /\ c.req.key \in DOMAIN api_keys
                    /\ ~api_keys[c.req.key].is_active
                    /\ c.req.key \notin DOMAIN apiKeyCache

\* The key was cached when it was revoked, and the next call for it failed.
C14_Witness ==
    \E p \in DOMAIN acall :
        LET c == acall[p]
        IN  /\ Returned(c, "AuthenticateAPIKey")
            /\ c.req.key = KeyK
            /\ c.err = "invalid"
            /\ c.prev.req.op = "RevokeAPIKey"
            /\ c.prev.req.key = KeyK
            /\ c.prev.err = "nil"
            /\ c.prev.dropped = {KeyK}
            /\ KeyK \in DOMAIN api_keys /\ ~api_keys[KeyK].is_active

\* C16: an AuthenticateAPIKey that returns a credential returns one whose expiration
\* is not before the time the call read from the clock, from the cache as from the
\* store; one that fails on a cache hit has failed with the expired error and has
\* removed the entry.
C16_NoExpiredSuccess ==
    \A p \in DOMAIN acall :
        LET c == acall[p]
        IN  Returned(c, "AuthenticateAPIKey") =>
                /\ (c.err = "nil") =>
                        /\ c.apikey.ExpiresAt = NoTime \/ ~(c.apikey.ExpiresAt[1] < c.read)
                        /\ api_keys[c.req.key].expires_at = NoTime
                              \/ ~(api_keys[c.req.key].expires_at[1] < c.read)
                /\ (c.hit /\ c.err # "nil") =>
                        (c.err = "expired" /\ c.req.key \notin DOMAIN apiKeyCache)

\* A cached credential, still flagged active, expired in the cache: the hit was
\* refused and the entry removed.
C16_Witness ==
    \E p \in DOMAIN acall :
        LET c == acall[p]
        IN  /\ Returned(c, "AuthenticateAPIKey")
            /\ c.hit
            /\ c.err = "expired"
            /\ c.dropped = {c.req.key}
            /\ api_keys[c.req.key].is_active
            /\ c.req.key \notin DOMAIN apiKeyCache

(***************************************************************************)
(* Credentials: concurrent callers                                         *)
(***************************************************************************)

KeyCallers == 2

KeyConcRequests ==
    {KReq("AuthenticateAPIKey", KeyK, <<>>, NoTime), KReq("RevokeAPIKey", KeyK, <<>>, NoTime)}

\* A credential store in which key k of role r is active and does not expire.
StoreWithKey ==
    (KeyK :> [role_name |-> RoleR, created_at |-> 0, expires_at |-> NoTime, is_active |-> TRUE])

InitKeyConc == InitDB(1) /\ InitAuth(KeyCallers, {RoleR}, StoreWithKey, <<>>, 1)

NextKeyConc ==
    \E p \in 1..KeyCallers :
        \/ AuthenticateAPIKey(p, KeyConcRequests)
        \/ authenticateAPIKeyDB(p)
        \/ apiKeyCacheAdd(p)
        \/ RevokeAPIKey(p, KeyConcRequests)
        \/ InvalidateAPIKey(p)

SpecKeyConc == InitKeyConc /\ [][NextKeyConc]_vars

\* C15 as stated: while a RevokeAPIKey(k) has returned nil, the credential cache
\* holds no entry for k (so that no later AuthenticateAPIKey(k) can be served one).
C15_AsStated ==
    (\E q \in DOMAIN acall :
        /\ Returned(acall[q], "RevokeAPIKey")
        /\ acall[q].req.key = KeyK
        /\ acall[q].err = "nil") => ~LRULive(apiKeyCache, KeyK)

(***************************************************************************)
(* Credentials and permissions together: one caller                        *)
(***************************************************************************)

AuthRequests ==
    {KReq("AuthenticateAPIKey", k, <<>>, NoTime) : k \in {KeyK, KeyJ}}
    \cup {KReq("RevokeAPIKey", k, <<>>, NoTime) : k \in {KeyK, KeyJ}}
    \cup {KReq("CreateAPIKey", KeyK, RoleR, NoTime), KReq("CreateAPIKey", KeyJ, RoleS, NoTime)}
    \cup {PReq("CheckPermission", r, T, OperationRead, NoAccess) : r \in PermRoles}
    \cup {PReq("CreatePermission", RoleR, T, <<>>, ReadOnly),
          PReq("CreatePermission", RoleS, Wildcard, <<>>, ReadOnly),
          PReq("UpdatePermission", RoleR, T, <<>>, NoAccess),
          PReq("DeletePermission", RoleR, T, <<>>, NoAccess),
          PReq("DeletePermission", RoleS, T, <<>>, NoAccess)}
    \cup {PReq(op, r, <<>>, <<>>, NoAccess) : op \in {"DeleteRole", "CreateRole"}, r \in PermRoles}

InitBoth == InitDB(1) /\ InitAuth(1, {RoleR, RoleS}, <<>>, <<>>, 1)

NextAuth ==
    \E p \in {1} :
        \/ AuthenticateAPIKey(p, AuthRequests)
        \/ authenticateAPIKeyDB(p)
        \/ apiKeyCacheAdd(p)
        \/ CreateAPIKey(p, AuthRequests)
        \/ RevokeAPIKey(p, AuthRequests)
        \/ InvalidateAPIKey(p)
        \/ CheckPermission(p, AuthRequests)
        \/ checkPermissionDB(p)
        \/ permissionCacheAdd(p)
        \/ CreatePermission(p, AuthRequests)
        \/ UpdatePermission(p, AuthRequests)
        \/ DeletePermission(p, AuthRequests)
        \/ InvalidatePermissionCache(p)
        \/ CreateRole(p, AuthRequests)
        \/ DeleteRole(p, AuthRequests)
        \/ DeleteRoleAPIKeys(p)
        \/ DeleteRoleRow(p)
        \/ InvalidateAPIKeyCache(p)

SpecAuth == InitBoth /\ [][NextAuth]_vars

PermissionMutations == {"CreatePermission", "UpdatePermission", "DeletePermission"}

SameCaches == permissionCache' = permissionCache /\ apiKeyCache' = apiKeyCache

\* The credential cache loses the entry of k and nothing else.
OnlyRemoved(k) ==
    /\ DOMAIN apiKeyCache' = DOMAIN apiKeyCache \ {k}
    /\ \A x \in DOMAIN apiKeyCache' : apiKeyCache'[x] = apiKeyCache[x]

\* What a step of caller p that leaves it in c may do to the caches.
ScopeOf(c) ==
    LET ok == c.pc = "done" /\ c.err = "nil"
    IN  /\ c.req.op \in PermissionMutations =>
                IF ok THEN permissionCache' = <<>> /\ apiKeyCache' = apiKeyCache ELSE SameCaches
        /\ c.req.op = "RevokeAPIKey" =>
                IF ok THEN permissionCache' = permissionCache /\ OnlyRemoved(c.req.key)
                ELSE SameCaches
        /\ c.req.op = "DeleteRole" =>
                IF ok THEN permissionCache' = <<>> /\ apiKeyCache' = <<>>
                ELSE IF c.pc = "purgeKeys" THEN permissionCache' = <<>> /\ apiKeyCache' = apiKeyCache
                ELSE SameCaches
        /\ c.req.op \in {"CreateAPIKey", "CreateRole"} => SameCaches

\* C18: a permission mutation that succeeds empties the decision cache and leaves
\* the credential cache; a RevokeAPIKey(k) that succeeds removes only k from the
\* credential cache and leaves the decision cache; a DeleteRole that succeeds
\* empties both; a mutation that fails, and every earlier step of a mutation,
\* changes neither cache.
C18_InvalidationScope ==
    [][\A p \in DOMAIN acall : acall'[p] # acall[p] => ScopeOf(acall'[p])]_vars

\* RevokeAPIKey(k) has removed k while the credential of j and a decision stay cached.
C18_Witness ==
    \E p \in DOMAIN acall :
        /\ Returned(acall[p], "RevokeAPIKey")
        /\ acall[p].req.key = KeyK
        /\ acall[p].err = "nil"
        /\ acall[p].dropped = {KeyK}
        /\ DOMAIN apiKeyCache = {KeyJ}
        /\ DOMAIN permissionCache # {}

\* C19: when DeleteRole(r) has returned nil the store holds no role r, no permission
\* and no credential of r, and both caches are empty; a credential is returned only
\* for a key of a role in the store, and true only for a role in the store.
C19_RoleGone ==
    \A p \in DOMAIN acall :
        LET c == acall[p]
        IN  /\ (Returned(c, "DeleteRole") /\ c.err = "nil") =>
                    /\ c.req.role \notin roles
                    /\ \A x \in DOMAIN permissions : x[1] # c.req.role
                    /\ \A k \in DOMAIN api_keys : api_keys[k].role_name # c.req.role
                    /\ permissionCache = <<>>
                    /\ apiKeyCache = <<>>
            /\ (Returned(c, "AuthenticateAPIKey") /\ c.err = "nil") => c.apikey.RoleName \in roles
            /\ (Returned(c, "CheckPermission") /\ c.allowed) => c.req.role \in roles

\* The credential of k was cached when its role was deleted, and the next
\* AuthenticateAPIKey(k) failed.
C19_Witness ==
    \E p \in DOMAIN acall :
        LET c == acall[p]
        IN  /\ Returned(c, "AuthenticateAPIKey")
            /\ c.req.key = KeyK
            /\ c.err = "invalid"
            /\ c.prev.req = PReq("DeleteRole", RoleR, <<>>, <<>>, NoAccess)
            /\ c.prev.err = "nil"
            /\ KeyK \in c.prev.dropped
            /\ CacheKey(RoleR, T, OperationRead) \in c.prev.dropped

(***************************************************************************)
(* The expiration of cache entries: a reader, writers and a clock          *)
(***************************************************************************)

TTLMaxTime == 7

\* Caller 1 authenticates and checks permissions; caller 2 mutates the store.
Readers == {1}
Writers == {2}

TTLRequests ==
    {KReq("AuthenticateAPIKey", KeyK, <<>>, NoTime),
     KReq("RevokeAPIKey", KeyK, <<>>, NoTime),
     PReq("CheckPermission", RoleR, T, OperationRead, NoAccess),
     PReq("UpdatePermission", RoleR, T, <<>>, NoAccess)}

\* Role r may read table t.
StoreWithPermission == (<<RoleR, T>> :> ReadOnly)

InitTTL == InitDB(1) /\ InitAuth(Cardinality(Readers \cup Writers), {RoleR}, StoreWithKey, StoreWithPermission, 1)

NextTTL ==
    \/ \E p \in Readers :
        \/ AuthenticateAPIKey(p, TTLRequests)
        \/ authenticateAPIKeyDB(p)
        \/ apiKeyCacheAdd(p)
        \/ CheckPermission(p, TTLRequests)
        \/ checkPermissionDB(p)
        \/ permissionCacheAdd(p)
    \/ \E p \in Writers :
        \/ RevokeAPIKey(p, TTLRequests)
        \/ InvalidateAPIKey(p)
        \/ UpdatePermission(p, TTLRequests)
        \/ InvalidatePermissionCache(p)
    \/ Tick(TTLMaxTime)

SpecTTL == InitTTL /\ [][NextTTL]_vars

\* The cache and the key a lookup with the request r reads.
LookupCache(r) == IF r.op = "AuthenticateAPIKey" THEN apiKeyCache ELSE permissionCache

LookupKey(r) ==
    IF r.op = "AuthenticateAPIKey" THEN r.key ELSE CacheKey(r.role, r.table, r.operation)

\* Caller p does the cache lookup of AuthenticateAPIKey or CheckPermission in this step.
Lookup(p) ==
    /\ Free(p)
    /\ acall'[p] # acall[p]
    /\ acall'[p].req.op \in {"AuthenticateAPIKey", "CheckPermission"}

\* The entry of k in c was put more than the TTL ago.
Outlived(c, k) == k \in DOMAIN c /\ now > c[k].put + defaultCacheTTL

\* C20: a lookup is answered by the cache only from an entry put at most the TTL
\* ago, and a lookup that finds an entry put longer ago goes on to the store,
\* whatever invalidation ran or did not run in between.
C20_ServedWithinTTL ==
    [][\A p \in Readers :
        Lookup(p) =>
            LET r == acall'[p].req
                c == LookupCache(r)
                k == LookupKey(r)
            IN  /\ acall'[p].hit => (k \in DOMAIN c /\ ~Outlived(c, k))
                /\ Outlived(c, k) => (~acall'[p].hit /\ acall'[p].pc = "db")]_vars

\* A credential read before its revocation was added to the cache after it and
\* served from there; the entry having outlived the TTL, the next call went to the
\* store, which refused the key.
C20_Witness ==
    /\ Outlived(apiKeyCache, KeyK)
    /\ apiKeyCache[KeyK].val.IsActive
    /\ ~api_keys[KeyK].is_active
    /\ Returned(acall[2], "RevokeAPIKey")
    /\ acall[2].err = "nil"
    /\ acall[1].prev.req.op = "AuthenticateAPIKey"
    /\ acall[1].prev.hit
    /\ acall[1].prev.err = "nil"
    /\ Returned(acall[1], "AuthenticateAPIKey")
    /\ ~acall[1].hit
    /\ acall[1].err = "invalid"
    /\ acall[1].read > apiKeyCache[KeyK].put + defaultCacheTTL

(***************************************************************************)
(* NewManager and Close.  A step ends at a call into database/sql; the     *)
(* outcome of the call is the environment's choice.                        *)
(***************************************************************************)

\* How a NewManager call ends with an error: no Manager is returned.
Failed(l, err) == [l EXCEPT !.pc = "done", !.err = err, !.mgr = FALSE]

\* A pool that could not be opened or did not answer the ping.
Unreached(l, err) == Failed([l EXCEPT !.unreached = TRUE], err)

\* sql.DB.Close: the pool is closed whatever Close returns; only the Close that
\* closes an open pool can report an error.
PoolClose(db) == "closed"

PoolCloseErr(db, fails) == IF db = "open" /\ fails THEN "close failed" ELSE "nil"

\* NewManager up to sql.Open of the main database.
NewManager ==
    /\ life.pc = "idle"
    /\ \E ok \in BOOLEAN :
        IF ok
        THEN /\ mainDB' = "open"
             /\ life' = [life EXCEPT !.pc = "pingMain", !.op = "NewManager"]
        ELSE /\ life' = Unreached([life EXCEPT !.op = "NewManager"], "failed to open main database")
             /\ UNCHANGED mainDB
    /\ UNCHANGED <<authDB, authTables, notMgr, dbVars, authVars>>

\* mgr.mainDB.Ping()
PingMain ==
    /\ life.pc = "pingMain"
    /\ \E ok \in BOOLEAN :
        IF ok
        THEN /\ life' = [life EXCEPT !.pc = "openAuth"]
             /\ UNCHANGED mainDB
        ELSE /\ mainDB' = PoolClose(mainDB)
             /\ life' = Unreached(life, "failed to ping main database")
    /\ UNCHANGED <<authDB, authTables, notMgr, dbVars, authVars>>

\* sql.Open of the auth database
OpenAuth ==
    /\ life.pc = "openAuth"
    /\ \E ok \in BOOLEAN :
        IF ok
        THEN /\ authDB' = "open"
             /\ life' = [life EXCEPT !.pc = "pingAuth"]
             /\ UNCHANGED mainDB
        ELSE /\ mainDB' = PoolClose(mainDB)
             /\ life' = Unreached(life, "failed to open auth database")
             /\ UNCHANGED authDB
    /\ UNCHANGED <<authTables, notMgr, dbVars, authVars>>

\* mgr.authDB.Ping()
PingAuth ==
    /\ life.pc = "pingAuth"
    /\ \E ok \in BOOLEAN :
        IF ok
        THEN /\ life' = [life EXCEPT !.pc = "schema"]
             /\ UNCHANGED <<mainDB, authDB>>
        ELSE /\ mainDB' = PoolClose(mainDB)
             /\ authDB' = PoolClose(authDB)
             /\ life' = Unreached(life, "failed to ping auth database")
    /\ UNCHANGED <<authTables, notMgr, dbVars, authVars>>

\* A validation that does not count the roles.
RECURSIVE initAuthSchemaNoCount(_, _)
initAuthSchemaNoCount(i, fails) ==
    IF i > Len(requiredTables) THEN "nil"
    ELSE IF fails = i THEN "failed to check for table"
    ELSE IF requiredTables[i] \notin authTables THEN "missing required table"
    ELSE initAuthSchemaNoCount(i + 1, fails)

\* initAuthSchema from the i-th required table on; fails is the number of the query
\* that fails (1..3 the table checks, 4 the count; 0 when none does).
RECURSIVE initAuthSchema(_, _)
initAuthSchema(i, fails) ==
    IF i > Len(requiredTables)
    THEN IF fails = i THEN "failed to count roles"
         ELSE IF Cardinality(roles) = 0 THEN "no roles defined"
         ELSE "nil"
    ELSE IF fails = i THEN "failed to check for table"
    ELSE IF requiredTables[i] \notin authTables THEN "missing required table"
    ELSE initAuthSchema(i + 1, fails)

\* mgr.initAuthSchema(), and on success warmConnections and the return of the Manager.
ValidateSchema ==
    /\ life.pc = "schema"
    /\ \E fails \in 0..(Len(requiredTables) + 1) :
        LET err == initAuthSchema(1, fails)
        IN  IF err = "nil"
            THEN /\ life' = [life EXCEPT !.pc = "done", !.err = "nil", !.mgr = TRUE]
                 /\ UNCHANGED <<mainDB, authDB>>
            ELSE /\ mainDB' = PoolClose(mainDB)
                 /\ authDB' = PoolClose(authDB)
                 /\ life' = Failed(life, err)
    /\ UNCHANGED <<authTables, notMgr, dbVars, authVars>>

MaxCloses == 3

\* A Close that returns at the first error.
CloseReturnsEarly(f1, f2) ==
    LET err1 == IF mainDB # "nil" THEN PoolCloseErr(mainDB, f1) ELSE "nil"
        err2 == IF authDB # "nil" THEN PoolCloseErr(authDB, f2) ELSE "nil"
    IN  /\ mainDB' = IF mainDB # "nil" THEN PoolClose(mainDB) ELSE mainDB
        /\ authDB' = IF authDB # "nil" /\ err1 = "nil" THEN PoolClose(authDB) ELSE authDB
        /\ life' = [life EXCEPT !.op = "Close", !.err1 = err1,
                                !.err = IF err1 # "nil" THEN err1 ELSE err2,
                                !.closes = @ + 1]

\* Manager.Close with the outcomes f1, f2 of the two pools' Close.
CloseWith(f1, f2) ==
    LET err1 == IF mainDB # "nil" THEN PoolCloseErr(mainDB, f1) ELSE "nil"
        err2 == IF authDB # "nil" THEN PoolCloseErr(authDB, f2) ELSE "nil"
    IN  /\ mainDB' = IF mainDB # "nil" THEN PoolClose(mainDB) ELSE mainDB
        /\ authDB' = IF authDB # "nil" THEN PoolClose(authDB) ELSE authDB
        /\ life' = [life EXCEPT !.op = "Close", !.err1 = err1,
                                !.err = IF err1 # "nil" THEN err1 ELSE err2,
                                !.closes = @ + 1]

\* Close on a Manager that NewManager returned.
Close ==
    /\ life.pc = "done"
    /\ life.mgr
    /\ life.closes < MaxCloses
    /\ \E f1 \in BOOLEAN, f2 \in BOOLEAN : CloseWith(f1, f2)
    /\ UNCHANGED <<authTables, notMgr, dbVars, authVars>>

\* Before NewManager: no pool, any subset of the credential tables, with or without a role.
InitStartup ==
    /\ InitEngine(1)
    /\ InitAuth(1, {}, <<>>, <<>>, 1)
    /\ mainDB = "nil"
    /\ authDB = "nil"
    /\ authTables \in SUBSET Range(requiredTables)
    /\ life = IdleLife
    /\ queries = <<>>
    /\ sqlgen = NoGen
    /\ http = <<>>

\* The auth-db tool adds a role to a credential store that has the roles table.
RoleAdd ==
    /\ life.pc = "idle"
    /\ "roles" \in authTables
    /\ roles = {}
    /\ roles' = {RoleR}
    /\ UNCHANGED <<api_keys, permissions, permissionCache, apiKeyCache, now, acall, dbVars, svcVars>>

NextStartup ==
    \/ RoleAdd
    \/ NewManager
    \/ PingMain
    \/ OpenAuth
    \/ PingAuth
    \/ ValidateSchema
    \/ Close

SpecStartup == InitStartup /\ [][NextStartup]_vars

NewManagerReturned == life.op = "NewManager" /\ life.pc = "done"

PoolsReleased == mainDB \in {"nil", "closed"} /\ authDB \in {"nil", "closed"}

StoreUntouched ==
    /\ authTables' = authTables
    /\ roles' = roles
    /\ api_keys' = api_keys
    /\ permissions' = permissions

\* C21: NewManager returns a Manager or an error, never both; it returns an error
\* when a pool could not be opened or pinged, when a required table is missing or
\* when there is no role; with the error no pool is left open; and no step of
\* NewManager changes the tables or the rows of the credential store.
C21_StartupFailsClosed ==
    /\ [](NewManagerReturned =>
            /\ life.mgr <=> life.err = "nil"
            /\ (\/ life.unreached
                \/ ~(Range(requiredTables) \subseteq authTables)
                \/ roles = {}) => ~life.mgr
            /\ life.mgr => (mainDB = "open" /\ authDB = "open")
            /\ ~life.mgr => PoolsReleased)
    /\ [][life'.op = "NewManager" => StoreUntouched]_vars

\* Both pools were reached and all tables exist, but there is no role: NewManager
\* failed and closed both pools.
C21_Witness ==
    /\ NewManagerReturned
    /\ life.err = "no roles defined"
    /\ ~life.mgr
    /\ authTables = Range(requiredTables)
    /\ mainDB = "closed"
    /\ authDB = "closed"

\* C22: after Close both pools are closed; if the main pool's Close failed, its error
\* is the one returned; from the second Close on, Close returns nil and changes
\* neither pool.
C22_CloseIdempotent ==
    /\ [](life.op = "Close" =>
            /\ mainDB = "closed"
            /\ authDB = "closed"
            /\ life.err1 # "nil" => life.err = life.err1
            /\ life.closes >= 2 => life.err = "nil")
    /\ [][life.op = "Close" => (mainDB' = mainDB /\ authDB' = authDB)]_vars

\* Close has been called a second time.
C22_Witness ==
    /\ life.op = "Close"
    /\ life.closes = 2
    /\ life.err = "nil"
    /\ mainDB = "closed"
    /\ authDB = "closed"

(***************************************************************************)
(* getTableColumns with a table that does not exist yet                    *)
(***************************************************************************)

ColsCalls == 4

ColsRequests ==
    {Req("Insert", T, (ColB :> 2), <<>>, <<>>),
     Req("Insert", T2, (ColB :> 2), <<>>, <<>>),
     Req("Insert", T2, (ColA :> 2), <<>>, <<>>)}

\* The main database holds table t only.
InitCols ==
    /\ tableSchemas = <<>>
    /\ preparedStmts = <<>>
    /\ stmts = <<>>
    /\ catalog = (T :> InitialCatalog[T])
    /\ rows = [InitialRows EXCEPT ![T2] = <<>>]
    /\ txs = [p \in {1} |-> <<>>]
    /\ commitSeq = 0
    /\ call = [p \in {1} |-> IdleCall(0)]
    /\ dictQueries = [t \in TableNames |-> 0]
    /\ InitServing
    /\ InitAuth(1, {RoleR}, <<>>, <<>>, 1)

\* CREATE TABLE t2, run by another client of the main database.
CreateTable ==
    /\ T2 \notin DOMAIN catalog
    /\ catalog' = (T2 :> InitialCatalog[T2]) @@ catalog
    /\ UNCHANGED <<tableSchemas, preparedStmts, stmts, rows, txs, commitSeq, call, dictQueries,
                   authVars, svcVars>>

NextCols ==
    \/ \E p \in {1} :
        \/ Call(p, ColsRequests, ColsCalls)
        \/ GetCols(p)
        \/ Load(p)
        \/ Prepare(p, {})
        \/ BeginTx(p, {})
        \/ Exec(p, {})
        \/ Commit(p, {})
    \/ CreateTable

SpecCols == InitCols /\ [][NextCols]_vars

NotFound(c) == c.pc = "done" /\ c.err = <<[k |-> "schema"]>>

\* What the getTableColumns step of caller p does.
ColumnsStep(p) ==
    LET c == call[p]
        t == c.table
        d == call'[p]
    IN  IF t \in DOMAIN tableSchemas
        THEN /\ d.columns = tableSchemas[t]
             /\ ~NotFound(d)
             /\ dictQueries' = dictQueries
             /\ tableSchemas' = tableSchemas
        ELSE /\ dictQueries' = [dictQueries EXCEPT ![t] = @ + 1]
             /\ IF t \in DOMAIN catalog /\ Len(catalog[t]) > 0
                THEN /\ d.columns = catalog[t]
                     /\ ~NotFound(d)
                     /\ tableSchemas' = (t :> catalog[t]) @@ tableSchemas
                ELSE /\ NotFound(d)
                     /\ tableSchemas' = tableSchemas

QueryCallers == 2

\* ctx is the context of context.WithTimeout: "live", "expired" (the timeout fired)
\* or "cancelled" (cancel() was called first); released tells whether cancel() was
\* called or the timeout fired; rows is the *sql.Rows returned: "nil", "open" or
\* "closed"; watcher is the goroutine: "none", "waiting" or "ended".
IdleQuery ==
    [pool |-> "none", ctx |-> "none", released |-> FALSE, rows |-> "nil",
     err |-> "nil", watcher |-> "none"]

\* ctx.Done() is closed.
Done(q) == q.ctx \in {"expired", "cancelled"}

\* cancel(): the context is cancelled unless it is done already, and released.
Cancel(q) == [q EXCEPT !.ctx = IF Done(q) THEN @ ELSE "cancelled", !.released = TRUE]

\* QueryMain / QueryAuth on the pool db: the query fails or returns a cursor.
Query(p, db) ==
    /\ queries[p].pool = "none"
    /\ \E ok \in BOOLEAN :
        LET q == [IdleQuery EXCEPT !.pool = db, !.ctx = "live"]
        IN  queries' = [queries EXCEPT ![p] =
                IF ok
                THEN [q EXCEPT !.rows = "open", !.watcher = "waiting"]
                ELSE [Cancel(q) EXCEPT !.err = "query failed"]]
    /\ UNCHANGED <<notQueries, dbVars, authVars>>

QueryMain(p) == Query(p, "main")

QueryAuth(p) == Query(p, "auth")

\* The timeout of the context fires.
Timeout(p) ==
    /\ queries[p].ctx = "live"
    /\ queries' = [queries EXCEPT ![p] = [@ EXCEPT !.ctx = "expired", !.released = TRUE]]
    /\ UNCHANGED <<notQueries, dbVars, authVars>>

\* database/sql closes the cursor of a query whose context is done.
AwaitDone(p) ==
    /\ queries[p].rows = "open"
    /\ Done(queries[p])
    /\ queries' = [queries EXCEPT ![p] = [@ EXCEPT !.rows = "closed"]]
    /\ UNCHANGED <<notQueries, dbVars, authVars>>

\* The caller closes the cursor: rows.Close().
RowsClose(p) ==
    /\ queries[p].rows = "open"
    /\ queries' = [queries EXCEPT ![p] = [@ EXCEPT !.rows = "closed"]]
    /\ UNCHANGED <<notQueries, dbVars, authVars>>

\* go func() { <-ctx.Done(); cancel() }()
Watcher(p) ==
    /\ queries[p].watcher = "waiting"
    /\ Done(queries[p])
    /\ queries' = [queries EXCEPT ![p] = [Cancel(@) EXCEPT !.watcher = "ended"]]
    /\ UNCHANGED <<notQueries, dbVars, authVars>>

InitQuery ==
    /\ InitEngine(1)
    /\ InitAuth(1, {RoleR}, <<>>, <<>>, 1)
    /\ InitPools
    /\ queries = [p \in 1..QueryCallers |-> IdleQuery]
    /\ sqlgen = NoGen
    /\ http = <<>>

NextQuery ==
    \E p \in 1..QueryCallers :
        \/ QueryMain(p)
        \/ QueryAuth(p)
        \/ Timeout(p)
        \/ AwaitDone(p)
        \/ RowsClose(p)
        \/ Watcher(p)

SpecQuery == InitQuery /\ [][NextQuery]_vars

\* C23 as stated: once the cursor of a query is closed, the goroutine does not
\* go on waiting for the timeout: its wait is over, or it has ended.
C23_AsStated ==
    \A p \in DOMAIN queries :
        (queries[p].rows = "closed" /\ queries[p].watcher = "waiting") => Done(queries[p])

(***************************************************************************)
(* The SQL built from filter and sort terms                                *)
(***************************************************************************)

\* The operators the handlers accept, and one they do not.
SupportedOperators == <<"eq", "ne", "gt", "gte", "lt", "lte", "like", "in">>
GenOperators == Range(SupportedOperators) \cup {"between"}

\* A list value (for in) and a pattern (for like).
ListValue == <<1, 2>>
Pattern == <<"%", "a">>

\* The values given to Filter.ToSQL.
GenFilterValues ==
    [nil |-> NULL, one |-> 1, two |-> 2, list |-> ListValue, pattern |-> Pattern]

GenMaxParam == 3

\* Every spelling of "desc", and directions that are not "desc".
DescSpellings ==
    {<<d, e, s, c>> : d \in {"d", "D"}, e \in {"e", "E"}, s \in {"s", "S"}, c \in {"c", "C"}}

OtherDirections ==
    {<<>>, <<"a","s","c">>, <<"A","S","C">>, <<"d">>, <<"d","e","s","c"," ">>,
     <<"d","e","s","c","e","n","d","i","n","g">>}

GenSorts == [Column : {ColA, ColB}, Direction : DescSpellings \cup OtherDirections]

\* The sort lists given to Select.
GenSortLists ==
    {<<>>,
     <<[Column |-> ColA, Direction |-> <<"D","e","s","c">>]>>,
     <<[Column |-> ColB, Direction |-> <<>>], [Column |-> ColA, Direction |-> <<"d","e","s","c">>]>>,
     <<[Column |-> ColA, Direction |-> <<"D","E","S","C">>], [Column |-> ColB, Direction |-> <<"u","p">>]>>}

\* The terms of a WHERE clause without their values, and the values given to them.
GenTerms == [Column : {ColA, ColB}, Operator : {"eq", "gt", "in"}]
GenTermLists == {<<t>> : t \in GenTerms} \cup {<<t, u>> : t \in GenTerms, u \in GenTerms}
GenValues == Values \cup {NULL}

WithValues(terms, vs) ==
    [i \in 1..Len(terms) |->
        [Column |-> terms[i].Column, Operator |-> terms[i].Operator, Value |-> vs[i]]]

\* Each behaviour applies one of the functions once, to one input.

\* Filter.ToSQL(i) applied to a filter.
FilterToSQL ==
    /\ sqlgen = NoGen
    /\ \E col \in {ColA, ColB}, operator \in GenOperators, v \in DOMAIN GenFilterValues,
          i \in 1..GenMaxParam :
        LET f == [Column |-> col, Operator |-> operator, Value |-> GenFilterValues[v]]
        IN  sqlgen' = [fn |-> "Filter.ToSQL", f |-> f, v |-> v, i |-> i, out |-> ToSQL(f, i)]
    /\ UNCHANGED <<notSqlgen, dbVars, authVars>>

\* Sort.ToSQL() applied to a sort term.
SortToSQLCall ==
    /\ sqlgen = NoGen
    /\ \E t \in GenSorts :
        sqlgen' = [fn |-> "Sort.ToSQL", s |-> t, out |-> SortToSQL(t)]
    /\ UNCHANGED <<notSqlgen, dbVars, authVars>>

\* Two Select calls whose filters differ in their values only.
SelectTwice ==
    /\ sqlgen = NoGen
    /\ \E terms \in GenTermLists, sorts \in GenSortLists, limit \in {0, 2} :
        \E va \in [1..Len(terms) -> GenValues], vb \in [1..Len(terms) -> GenValues] :
            sqlgen' = [fn |-> "Select", terms |-> terms, sorts |-> sorts, va |-> va, vb |-> vb,
                       a |-> SelectQuery(T, WithValues(terms, va), sorts, limit, 0),
                       b |-> SelectQuery(T, WithValues(terms, vb), sorts, limit, 0)]
    /\ UNCHANGED <<notSqlgen, dbVars, authVars>>

\* Two Count calls whose filters differ in their values only.
CountTwice ==
    /\ sqlgen = NoGen
    /\ \E terms \in GenTermLists :
        \E va \in [1..Len(terms) -> GenValues], vb \in [1..Len(terms) -> GenValues] :
            sqlgen' = [fn |-> "Count", terms |-> terms, sorts |-> <<>>, va |-> va, vb |-> vb,
                       a |-> CountQuery(T, WithValues(terms, va)),
                       b |-> CountQuery(T, WithValues(terms, vb))]
    /\ UNCHANGED <<notSqlgen, dbVars, authVars>>

\* Two UpdateWithFilters calls that differ in their SET and filter values only.
UpdateWithFiltersTwice ==
    /\ sqlgen = NoGen
    /\ \E terms \in GenTermLists, sa \in GenValues, sb \in GenValues :
        \E va \in [1..Len(terms) -> GenValues], vb \in [1..Len(terms) -> GenValues] :
            sqlgen' = [fn |-> "UpdateWithFilters", terms |-> terms, sorts |-> <<>>,
                       va |-> va, vb |-> vb,
                       a |-> UpdateWithFiltersQuery(T, (ColC :> sa), <<ColC>>, WithValues(terms, va)),
                       b |-> UpdateWithFiltersQuery(T, (ColC :> sb), <<ColC>>, WithValues(terms, vb))]
    /\ UNCHANGED <<notSqlgen, dbVars, authVars>>

\* Two DeleteWithFilters calls whose filters differ in their values only.
DeleteWithFiltersTwice ==
    /\ sqlgen = NoGen
    /\ \E terms \in GenTermLists :
        \E va \in [1..Len(terms) -> GenValues], vb \in [1..Len(terms) -> GenValues] :
            sqlgen' = [fn |-> "DeleteWithFilters", terms |-> terms, sorts |-> <<>>,
                       va |-> va, vb |-> vb,
                       a |-> DeleteWithFiltersQuery(T, WithValues(terms, va)),
                       b |-> DeleteWithFiltersQuery(T, WithValues(terms, vb))]
    /\ UNCHANGED <<notSqlgen, dbVars, authVars>>

NextSQL ==
    \/ FilterToSQL
    \/ SortToSQLCall
    \/ SelectTwice
    \/ CountTwice
    \/ UpdateWithFiltersTwice
    \/ DeleteWithFiltersTwice

SpecSQL == InitWith(1) /\ [][NextSQL]_vars

Builders == {"Select", "Count", "UpdateWithFilters", "DeleteWithFilters"}

\* C25 as stated: two calls whose terms differ only in their values build the same
\* SQL text.
C25_AsStated == sqlgen.fn \in Builders => sqlgen.a.stmt = sqlgen.b.stmt

\* The SQL operator the claim gives for each supported operator, in the order of
\* SupportedOperators.
SqlOperators == <<"=", "!=", ">", ">=", "<", "<=", "LIKE", "IN">>

\* C26: for each of the eight operators Filter.ToSQL(i) returns the term
\* column OP $i with the operator's SQL spelling and the placeholder i, and the
\* filter's value as it is.
C26_FilterToSQL ==
    sqlgen.fn = "Filter.ToSQL" =>
        \A n \in DOMAIN SupportedOperators :
            sqlgen.f.Operator = SupportedOperators[n] =>
                /\ sqlgen.out.clause =
                        [col |-> sqlgen.f.Column, op |-> SqlOperators[n], param |-> sqlgen.i]
                /\ sqlgen.out.val = sqlgen.f.Value

\* An in filter with a list value at placeholder 2.
C26_Witness ==
    /\ sqlgen.fn = "Filter.ToSQL"
    /\ sqlgen.f.Operator = "in"
    /\ sqlgen.v = "list"
    /\ sqlgen.i = 2
    /\ sqlgen.out = [clause |-> [col |-> sqlgen.f.Column, op |-> "IN", param |-> 2], val |-> ListValue]

Direction(d) == IF d \in DescSpellings THEN "DESC" ELSE "ASC"

\* C27: Sort.ToSQL gives column DESC for every spelling of "desc" and column ASC for
\* every other direction, the empty one included; the ORDER BY of Select has the
\* fragments of the sort terms in the order given.
C27_SortToSQL ==
    /\ sqlgen.fn = "Sort.ToSQL" =>
            sqlgen.out = [col |-> sqlgen.s.Column, dir |-> Direction(sqlgen.s.Direction)]
    /\ sqlgen.fn = "Select" =>
            /\ Len(sqlgen.a.stmt.order) = Len(sqlgen.sorts)
            /\ \A i \in DOMAIN sqlgen.sorts :
                    sqlgen.a.stmt.order[i] =
                        [col |-> sqlgen.sorts[i].Column, dir |-> Direction(sqlgen.sorts[i].Direction)]

\* A Select sorted by b with no direction, then by a descending.
C27_Witness ==
    /\ sqlgen.fn = "Select"
    /\ sqlgen.a.stmt.order = <<[col |-> ColB, dir |-> "ASC"], [col |-> ColA, dir |-> "DESC"]>>
    /\ sqlgen.sorts[1].Direction = <<>>

(***************************************************************************)
(* The dry run of a delete: CountWithFilters, then DeleteWithFilters       *)
(***************************************************************************)

DryCalls == 3

\* The filters of the requests: b = 1; b > 0; a = nil and b = 1.
DryFilters ==
    {<<Eq(ColB, 1)>>,
     <<[Column |-> ColB, Operator |-> "gt", Value |-> 0]>>,
     <<Eq(ColA, NULL), Eq(ColB, 1)>>,
     <<Eq(ColA, NULL)>>}

DryRuns == {Req("CountWithFilters", T, <<>>, <<>>, f) : f \in DryFilters}

DryRequests ==
    {Req("DeleteWithFilters", T, <<>>, <<>>, f) : f \in DryFilters}
    \cup {Req("Insert", T, (ColB :> v), <<>>, <<>>) : v \in Values}

NextDry ==
    \E p \in {1} :
        \/ Call(p, DryRequests, DryCalls)
        \/ CountWithFilters(p, DryRuns, DryCalls)
        \/ GetCols(p)
        \/ Load(p)
        \/ Prepare(p, {})
        \/ BeginTx(p, {})
        \/ Exec(p, {})
        \/ Commit(p, {})

SpecDry == InitWith(1) /\ [][NextDry]_vars

\* The call of worker p is a DeleteWithFilters that returned and that followed a
\* dry run with the same table and filters.
DeletedAfterDryRun(p) ==
    /\ call[p].op = "DeleteWithFilters"
    /\ call[p].pc = "done"
    /\ call[p].err = Nil
    /\ call[p].dry.n = call[p].n - 1
    /\ call[p].dry.table = call[p].table
    /\ call[p].dry.filters = call[p].filters

\* C28: CountWithFilters changes no row and begins no transaction, and the
\* DeleteWithFilters that follows it with the same filters reports as many rows
\* affected as the count returned.
C28_DryRun ==
    /\ [](\A p \in DOMAIN call :
            DeletedAfterDryRun(p) => call[p].result.RowsAffected = call[p].dry.count)
    /\ [][\A p \in DOMAIN call :
            (call'[p] # call[p] /\ call'[p].op = "CountWithFilters") =>
                /\ rows' = rows
                /\ commitSeq' = commitSeq
                /\ txs'[p] = <<>>]_vars

\* A row with b = 1 was inserted, the dry run counted two rows, and the delete that
\* followed removed two.
C28_Witness ==
    /\ DeletedAfterDryRun(1)
    /\ call[1].dry.count = 2
    /\ call[1].result.RowsAffected = 2
    /\ call[1].filters = <<Eq(ColB, 1)>>

(***************************************************************************)
(* The HTTP module: DuckDB.ServeHTTP and Middleware.Authenticate           *)
(***************************************************************************)

\* strings.HasPrefix(s, prefix)
HasPrefix(s, prefix) ==
    /\ Len(prefix) <= Len(s)
    /\ SubSeq(s, 1, Len(prefix)) = prefix

routePrefix == <<"/","d","u","c","k","d","b">>

PathHealth  == routePrefix \o <<"/","h","e","a","l","t","h">>
PathOpenAPI == routePrefix \o <<"/","o","p","e","n","a","p","i",".","j","s","o","n">>
PrefixQuery == routePrefix \o <<"/","q","u","e","r","y">>
PrefixAPI   == routePrefix \o <<"/","a","p","i","/">>

\* A request that no one is handling.  via is the entry ("module" for
\* DuckDB.ServeHTTP, "middleware" for Middleware.Authenticate), key the X-API-Key
\* header; status is the status written (0: none), handler the handler the request
\* was given to, role the role put into the request's context, traced whether the
\* request id was added to the request and the response; auth is history: the error
\* AuthenticateAPIKey returned for the header ("none": it was not called).
IdleRequest ==
    [pc |-> "done", via |-> "none", path |-> <<>>, key |-> <<>>, status |-> 0,
     handler |-> "none", role |-> <<>>, traced |-> FALSE, auth |-> "none"]

\* The request in flight or last served (none at the start).
Request == IF http = <<>> THEN IdleRequest ELSE http[1]

Respond(r, status, handler) == <<[r EXCEPT !.pc = "done", !.status = status, !.handler = handler]>>

\* A check that lets every request through.
AuthenticatedAlways(c) == TRUE

\* err == nil && key != nil
Authenticated(c) == c.err = "nil"

\* The routing of an authenticated request.
Route(path) ==
    IF HasPrefix(path, PrefixQuery) THEN [status |-> 0, handler |-> "query"]
    ELSE IF HasPrefix(path, PrefixAPI) THEN [status |-> 0, handler |-> "crud"]
    ELSE [status |-> 404, handler |-> "none"]

\* DuckDB.ServeHTTP up to the call of AuthenticateAPIKey: a path outside the prefix
\* goes to the next handler, the health and OpenAPI endpoints are served, a request
\* without the header is refused.
ServeHTTP(p, In) ==
    /\ Free(p)
    /\ Request.pc = "done"
    /\ \E q \in In :
        /\ q.via = "module"
        /\ LET r == [IdleRequest EXCEPT !.via = q.via, !.path = q.path, !.key = q.key]
               t == [r EXCEPT !.traced = TRUE]
           IN  IF ~HasPrefix(q.path, routePrefix)
               THEN http' = Respond(r, 0, "next") /\ UNCHANGED acall
               ELSE IF q.path = PathHealth
               THEN http' = Respond(t, 200, "health") /\ UNCHANGED acall
               ELSE IF q.path = PathOpenAPI
               THEN http' = Respond(t, 0, "openapi") /\ UNCHANGED acall
               ELSE IF q.key = <<>>
               THEN http' = Respond(t, 401, "none") /\ UNCHANGED acall
               ELSE /\ http' = <<[t EXCEPT !.pc = "auth"]>>
                    /\ acall' = [acall EXCEPT ![p].pc = "idle"]
    /\ UNCHANGED <<roles, api_keys, permissions, permissionCache, apiKeyCache, now, dbVars,
                   mgrVars, queries, sqlgen>>

\* Middleware.Authenticate up to the call of AuthenticateAPIKey.
MiddlewareAuthenticate(p, In) ==
    /\ Free(p)
    /\ Request.pc = "done"
    /\ \E q \in In :
        /\ q.via = "middleware"
        /\ LET r == [IdleRequest EXCEPT !.via = q.via, !.path = q.path, !.key = q.key]
           IN  IF q.key = <<>>
               THEN http' = Respond(r, 401, "none") /\ UNCHANGED acall
               ELSE /\ http' = <<[r EXCEPT !.pc = "auth"]>>
                    /\ acall' = [acall EXCEPT ![p].pc = "idle"]
    /\ UNCHANGED <<roles, api_keys, permissions, permissionCache, apiKeyCache, now, dbVars,
                   mgrVars, queries, sqlgen>>

\* The call d.authorizer.AuthenticateAPIKey(apiKey) of the request in flight.
RequestAuthenticates(p) ==
    /\ Request.pc = "auth"
    /\ acall[p].pc = "idle"
    /\ AuthenticateAPIKey(p, {AReq("AuthenticateAPIKey", Request.key, <<>>, <<>>, <<>>, NoAccess, NoTime)})

\* After AuthenticateAPIKey returned: 401, or the role goes into the context and the
\* request is routed (ServeHTTP) or given to the next handler (Authenticate).
RequestRouted(p) ==
    /\ Request.pc = "auth"
    /\ acall[p].pc = "done"
    /\ LET r == [Request EXCEPT !.auth = acall[p].err]
           c == acall[p]
       IN  IF ~Authenticated(c)
           THEN http' = Respond(r, 401, "none")
           ELSE LET a == [r EXCEPT !.role = c.apikey.RoleName]
                IN  IF r.via = "middleware"
                    THEN http' = Respond(a, 0, "next")
                    ELSE http' = Respond(a, Route(r.path).status, Route(r.path).handler)
    /\ UNCHANGED <<authVars, dbVars, mgrVars, queries, sqlgen>>

\* The credential store is administered between requests.
Administers(p, In) ==
    /\ Request.pc = "done"
    /\ \/ CreateAPIKey(p, In)
       \/ RevokeAPIKey(p, In)

PathOutside      == <<"/","o","t","h","e","r">>
PathSibling      == routePrefix \o <<"x">>
PathQuery        == PrefixQuery
PathTable        == PrefixAPI \o T
PathUnknown      == routePrefix \o <<"/","t","a","b","l","e","s">>
PathHealthBelow  == PathHealth \o <<"/">> \o T

HTTPPaths ==
    {PathOutside, PathSibling, PathHealth, PathOpenAPI, PathQuery, PathTable, PathUnknown,
     PathHealthBelow}

HTTPKeys == {<<>>, KeyK, KeyJ}

HTTPRequests ==
    {[via |-> "module", path |-> path, key |-> k] : path \in HTTPPaths, k \in HTTPKeys}
    \cup {[via |-> "middleware", path |-> PathTable, key |-> k] : k \in HTTPKeys}

\* Credentials are created (one already expired, one expiring at 1) and revoked.
HTTPAdminRequests ==
    {KReq("RevokeAPIKey", k, <<>>, NoTime) : k \in {KeyK, KeyJ}}
    \cup {KReq("CreateAPIKey", KeyK, RoleR, e) : e \in {NoTime, At(1)}}
    \cup {KReq("CreateAPIKey", KeyJ, RoleR, At(0))}

HTTPMaxTime == 2

NextHTTP ==
    \/ \E p \in {1} :
        \/ ServeHTTP(p, HTTPRequests)
        \/ MiddlewareAuthenticate(p, HTTPRequests)
        \/ RequestAuthenticates(p)
        \/ authenticateAPIKeyDB(p)
        \/ apiKeyCacheAdd(p)
        \/ RequestRouted(p)
        \/ Administers(p, HTTPAdminRequests)
        \/ InvalidateAPIKey(p)
    \/ Tick(HTTPMaxTime)

SpecHTTP == InitKey /\ [][NextHTTP]_vars

\* The request was answered, and it is one that needs a credential.
Answered(r) ==
    /\ r.pc = "done"
    /\ \/ r.via = "middleware"
       \/ r.via = "module" /\ HasPrefix(r.path, routePrefix) /\ r.path \notin {PathHealth, PathOpenAPI}

\* AuthenticateAPIKey was called with the header of the request and returned nil.
KeyAccepted(r) == r.key # <<>> /\ r.auth = "nil"

\* The store has no usable credential for the key: no row, a revoked row, or a row
\* that had expired when the call read the clock.
Unusable(k, read) ==
    \/ k \notin DOMAIN api_keys
    \/ ~api_keys[k].is_active
    \/ api_keys[k].expires_at # NoTime /\ api_keys[k].expires_at[1] < read

\* C29: under the prefix only health and OpenAPI are served without a credential;
\* the query, CRUD and next handlers are reached only after AuthenticateAPIKey
\* returned nil for the X-API-Key header; a missing, unknown, expired or revoked key
\* is answered 401 with no handler; a path outside the prefix goes to the next
\* handler untouched.
C29_AuthenticatedRouting ==
    /\ [](LET r == Request
          IN  /\ Answered(r) =>
                  /\ r.handler \in {"none", "query", "crud", "next"}
                  /\ r.handler # "none" => KeyAccepted(r)
                  /\ r.handler = "next" <=> (r.via = "middleware" /\ KeyAccepted(r))
                  /\ ~KeyAccepted(r) => r.status = 401 /\ r.handler = "none" /\ r.role = <<>>
              /\ (r.via = "module" /\ r.pc = "done" /\ ~HasPrefix(r.path, routePrefix)) =>
                  r.handler = "next" /\ r.status = 0 /\ ~r.traced /\ r.role = <<>> /\ r.auth = "none"
              /\ (r.via = "module" /\ r.pc = "done" /\ r.path = PathHealth) =>
                  r.handler = "health" /\ r.status = 200 /\ r.auth = "none"
              /\ (r.via = "module" /\ r.pc = "done" /\ r.path = PathOpenAPI) =>
                  r.handler = "openapi" /\ r.auth = "none")
    /\ [][(Request.pc = "auth" /\ Request'.pc = "done") =>
            /\ Request'.auth = acall[1].err
            /\ acall[1].req.op = "AuthenticateAPIKey" /\ acall[1].req.key = Request.key
            /\ Unusable(Request.key, acall[1].read) =>
                Request'.status = 401 /\ Request'.handler = "none"]_vars

\* A request with a revoked key that had been accepted before was refused.
C29_Witness ==
    /\ Answered(Request)
    /\ Request.via = "module"
    /\ Request.path = PathTable
    /\ Request.key = KeyK
    /\ KeyK \in DOMAIN api_keys
    /\ ~api_keys[KeyK].is_active
    /\ acall[1].req.op = "AuthenticateAPIKey"
    /\ acall[1].prev.req.op = "RevokeAPIKey"
    /\ acall[1].prev.err = "nil"
    /\ acall[1].prev.dropped = {KeyK}
    /\ Request.auth = "invalid"
    /\ Request.status = 401

(***************************************************************************)
(* The CRUD handler: CRUDHandler.ServeHTTP and its four handlers           *)
(***************************************************************************)

\* The characters of a table or column name.
IdentChars ==
    {"a", "b", "c", "d", "e", "f", "g", "h", "i", "j", "k", "l", "m", "n", "o", "p", "q", "r",
    "s", "t", "u", "v", "w", "x", "y", "z", "A", "B", "C", "D", "E", "F", "G", "H", "I", "J",
    "K", "L", "M", "N", "O", "P", "Q", "R", "S", "T", "U", "V", "W", "X", "Y", "Z", "0", "1",
    "2", "3", "4", "5", "6", "7", "8", "9", "_"}

\* SanitizeTableName / SanitizeColumnName: nil for a name that is not empty and has
\* only letters, digits and underscores.
SanitizeName(name) == name # <<>> /\ \A i \in DOMAIN name : name[i] \in IdentChars

SegDuckdb == <<"d","u","c","k","d","b">>
SegAPI    == <<"a","p","i">>

\* ExtractTableName on the path's segments (the path trimmed of "/" and split at "/").
ExtractTableName(parts) ==
    IF Len(parts) >= 3 /\ parts[1] = SegDuckdb /\ parts[2] = SegAPI THEN parts[3] ELSE <<>>

TableAPIKeys     == <<"a","p","i","_","k","e","y","s">>
TableRoles       == <<"r","o","l","e","s">>
TablePermissions == <<"p","e","r","m","i","s","s","i","o","n","s">>

\* A check that knows no internal table.
IsInternalTableNone(tableName) == FALSE

IsInternalTable(tableName) == tableName \in {TableAPIKeys, TableRoles, TablePermissions}

\* validOperators
ValidOperators == {"eq", "ne", "gt", "gte", "lt", "lte", "like", "in"}

\* The operation a method's handler asks CheckPermission for.
MethodOperation(method) ==
    CASE method = "POST"   -> OperationCreate
      [] method = "GET"    -> OperationRead
      [] method = "PUT"    -> OperationUpdate
      [] method = "DELETE" -> OperationDelete

\* The first filter of fs that a handler's loop refuses, by column or by operator
\* (ops: whether the loop checks operators); 0 if there is none.
RECURSIVE FirstBadFilter(_, _, _)
FirstBadFilter(fs, i, ops) ==
    IF i > Len(fs) THEN 0
    ELSE IF ~SanitizeName(fs[i].Column) \/ (ops /\ fs[i].Operator \notin ValidOperators) THEN i
    ELSE FirstBadFilter(fs, i + 1, ops)

\* ParseFilters / ParseWhereClause: the first term with an operator outside
\* validOperators is an error.
ParseError(fs) == \E i \in DOMAIN fs : fs[i].Operator \notin ValidOperators

\* What a handler does after CheckPermission allowed the operation, up to the call
\* of the Manager: the status of the refusal, or 0.
Validation(q) ==
    CASE q.method = "POST" ->
            IF \E col \in DOMAIN q.data : ~SanitizeName(col) THEN 400 ELSE 0
      [] q.method = "GET" ->
            IF ParseError(q.filters) THEN 400
            ELSE IF FirstBadFilter(q.filters, 1, FALSE) # 0 THEN 400
            ELSE 0
      [] q.method = "PUT" ->
            IF Len(q.filters) = 0 THEN 400
            ELSE IF DOMAIN q.data = {} THEN 400
            ELSE IF FirstBadFilter(q.filters, 1, TRUE) # 0 THEN 400
            ELSE IF \E col \in DOMAIN q.data : ~SanitizeName(col) THEN 400
            ELSE 0
      [] q.method = "DELETE" ->
            IF ParseError(q.filters) THEN 400
            ELSE IF Len(q.filters) = 0 THEN 400
            ELSE IF FirstBadFilter(q.filters, 1, FALSE) # 0 THEN 400
            ELSE 0

\* The Manager call of a request that passed every check.
ManagerRequest(q) ==
    CASE q.method = "POST"   -> Req("Insert", q.table, q.data, <<>>, <<>>)
      [] q.method = "GET"    -> Req("Select", q.table, <<>>, <<>>, q.filters)
      [] q.method = "PUT"    -> Req("UpdateWithFilters", q.table, q.data, <<>>, q.filters)
      [] q.method = "DELETE" ->
            IF q.dry THEN Req("CountWithFilters", q.table, <<>>, <<>>, q.filters)
            ELSE Req("DeleteWithFilters", q.table, <<>>, <<>>, q.filters)

\* A CRUD request that no one is handling.  parts, method, role, data, filters and dry
\* are the request (role is the role in its context); table is the table name
\* extracted; status is the status written; exists, perm, reached and seq are
\* history: what TableExists and CheckPermission returned, whether the Manager was
\* called, and how many requests the handler has been given.
IdleCRUD ==
    [pc |-> "done", method |-> "none", parts |-> <<>>, role |-> <<>>, data |-> <<>>,
     filters |-> <<>>, dry |-> FALSE, table |-> <<>>, status |-> 0, exists |-> "unchecked",
     perm |-> "unchecked", reached |-> FALSE, seq |-> 0]

CRUDRequest == IF http = <<>> THEN IdleCRUD ELSE http[1]

Answer(r, status) == <<[r EXCEPT !.pc = "done", !.status = status]>>

\* Bound: the requests the handler is given.
CRUDCalls == 2

\* CRUDHandler.ServeHTTP up to the handler's call of CheckPermission.
CRUDServeHTTP(p, In) ==
    /\ Free(p)
    /\ CRUDRequest.pc = "done"
    /\ call[p].pc \in {"idle", "done"}
    /\ CRUDRequest.seq < CRUDCalls
    /\ \E q \in In, failed \in BOOLEAN :
        LET tableName == ExtractTableName(q.parts)
            r == [IdleCRUD EXCEPT !.method = q.method, !.parts = q.parts, !.role = q.role,
                     !.data = q.data, !.filters = q.filters, !.dry = q.dry,
                     !.table = tableName, !.seq = CRUDRequest.seq + 1]
        IN  IF tableName = <<>>
            THEN http' = Answer(r, 400) /\ UNCHANGED acall
            ELSE IF ~SanitizeName(tableName)
            THEN http' = Answer(r, 400) /\ UNCHANGED acall
            ELSE IF IsInternalTable(tableName)
            THEN http' = Answer(r, 403) /\ UNCHANGED acall
            ELSE IF failed
            THEN http' = Answer([r EXCEPT !.exists = "error"], 500) /\ UNCHANGED acall
            ELSE IF tableName \notin DOMAIN catalog
            THEN http' = Answer([r EXCEPT !.exists = "no"], 404) /\ UNCHANGED acall
            ELSE IF q.method \notin {"POST", "GET", "PUT", "DELETE"}
            THEN http' = Answer([r EXCEPT !.exists = "yes"], 405) /\ UNCHANGED acall
            ELSE /\ http' = <<[r EXCEPT !.exists = "yes", !.pc = "perm"]>>
                 /\ acall' = [acall EXCEPT ![p].pc = "idle"]
    /\ UNCHANGED <<roles, api_keys, permissions, permissionCache, apiKeyCache, now, dbVars,
                   mgrVars, queries, sqlgen>>

\* h.authorizer.CheckPermission(role, tableName, operation) of the request in flight.
CRUDChecksPermission(p) ==
    /\ CRUDRequest.pc = "perm"
    /\ acall[p].pc = "idle"
    /\ CheckPermission(p, {PReq("CheckPermission", CRUDRequest.role, CRUDRequest.table,
                                MethodOperation(CRUDRequest.method), NoAccess)})

\* After CheckPermission returned: 500 on an error, 403 on false, then the handler's
\* validation of the body or the query parameters, then the Manager.
CRUDValidates(p) ==
    /\ CRUDRequest.pc = "perm"
    /\ acall[p].pc = "done"
    /\ LET r == CRUDRequest
           c == acall[p]
       IN  IF c.err # "nil"
           THEN http' = Answer([r EXCEPT !.perm = "error"], 500) /\ UNCHANGED call
           ELSE IF ~c.allowed
           THEN http' = Answer([r EXCEPT !.perm = "denied"], 403) /\ UNCHANGED call
           ELSE IF Validation(r) # 0
           THEN http' = Answer([r EXCEPT !.perm = "allowed"], Validation(r)) /\ UNCHANGED call
           ELSE /\ http' = <<[r EXCEPT !.perm = "allowed", !.pc = "manager", !.reached = TRUE]>>
                /\ call' = [call EXCEPT ![p].pc = "idle"]
    /\ UNCHANGED <<tableSchemas, preparedStmts, stmts, catalog, rows, txs, commitSeq,
                   dictQueries, authVars, mgrVars, queries, sqlgen>>

\* The handler's call of Insert, Select, UpdateWithFilters, DeleteWithFilters or
\* CountWithFilters.
CRUDCallsManager(p) ==
    /\ CRUDRequest.pc = "manager"
    /\ call[p].pc = "idle"
    /\ \/ Call(p, {ManagerRequest(CRUDRequest)} \cap {q \in {ManagerRequest(CRUDRequest)} : q.op \in Mutations}, CRUDCalls * 2)
       \/ Select(p, {ManagerRequest(CRUDRequest)}, CRUDCalls * 2)
       \/ CountWithFilters(p, {ManagerRequest(CRUDRequest)}, CRUDCalls * 2)

\* handleRead's h.dbMgr.Count(tableName, filters) after Select returned its cursor.
CRUDCounts(p) ==
    /\ CRUDRequest.pc = "count"
    /\ call[p].pc = "idle"
    /\ CountWithFilters(p, {Req("CountWithFilters", CRUDRequest.table, <<>>, <<>>,
                                CRUDRequest.filters)}, CRUDCalls * 2)

\* After the Manager returned: 500 on an error, else 201 for a create and 200 for
\* the others; handleRead goes on to Count and answers whatever Count returns.
CRUDResponds(p) ==
    /\ CRUDRequest.pc \in {"manager", "count"}
    /\ call[p].pc = "done"
    /\ LET r == CRUDRequest
       IN  IF r.pc = "count"
           THEN http' = Answer(r, 200) /\ UNCHANGED call
           ELSE IF call[p].err # Nil
           THEN http' = Answer(r, 500) /\ UNCHANGED call
           ELSE IF r.method = "GET"
           THEN /\ http' = <<[r EXCEPT !.pc = "count"]>>
                /\ call' = [call EXCEPT ![p].pc = "idle"]
           ELSE /\ http' = Answer(r, IF r.method = "POST" THEN 201 ELSE 200)
                /\ UNCHANGED call
    /\ UNCHANGED <<tableSchemas, preparedStmts, stmts, catalog, rows, txs, commitSeq,
                   dictQueries, authVars, mgrVars, queries, sqlgen>>

\* The paths /duckdb/api, /duckdb/api/t;, /duckdb/api/roles, /duckdb/api/u and
\* /duckdb/api/t, as segments.
TableU      == <<"u">>
TableBad    == <<"t", ";">>
ColBad      == <<"b", ";">>

CRUDPaths ==
    {<<SegDuckdb, SegAPI>>} \cup
    {<<SegDuckdb, SegAPI, name>> : name \in {TableBad, TableRoles, TableU, T}}

\* Bodies and query parameters: well-formed ones, one with a column that is no
\* identifier, one with an operator that is none of the eight, and an empty one.
CRUDContents ==
    {[data |-> (ColB :> 2), filters |-> <<Eq(ColB, 1)>>],
     [data |-> (ColBad :> 2), filters |-> <<[Column |-> ColBad, Operator |-> "eq", Value |-> 1]>>],
     [data |-> (ColB :> 2), filters |-> <<[Column |-> ColB, Operator |-> "regex", Value |-> 1]>>],
     [data |-> <<>>, filters |-> <<>>]}

CRUDContentOf(m) ==
    IF m = "PATCH" THEN {[data |-> (ColB :> 2), filters |-> <<Eq(ColB, 1)>>]} ELSE CRUDContents

\* Every method, role, content and dry_run on the table t; one read and one delete
\* per role on the other paths.
CRUDRequests ==
    {[method |-> m, parts |-> path, role |-> role, data |-> c.data, filters |-> c.filters,
      dry |-> d] :
        m \in {"GET", "DELETE"}, path \in CRUDPaths \ {<<SegDuckdb, SegAPI, T>>},
        role \in {RoleR, RoleS}, c \in CRUDContentOf("PATCH"), d \in {FALSE}}
    \cup UNION {{[method |-> m, parts |-> <<SegDuckdb, SegAPI, T>>, role |-> role, data |-> c.data,
                  filters |-> c.filters, dry |-> d] :
                    role \in {RoleR, RoleS}, c \in CRUDContentOf(m),
                    d \in IF m = "DELETE" THEN BOOLEAN ELSE {FALSE}} :
                 m \in {"POST", "GET", "PUT", "DELETE", "PATCH"}}

\* Role r may do everything on every table, role s may read t.
AllAccess == Flags(TRUE, TRUE, TRUE, TRUE, TRUE)

CRUDPermissions == (<<RoleR, Wildcard>> :> AllAccess) @@ (<<RoleS, T>> :> ReadOnly)

InitCRUD == InitDB(1) /\ InitAuth(1, {RoleR, RoleS}, <<>>, CRUDPermissions, 1)

NextCRUD ==
    \E p \in {1} :
        \/ CRUDServeHTTP(p, CRUDRequests)
        \/ CRUDChecksPermission(p)
        \/ checkPermissionDB(p)
        \/ checkPermissionDBError(p)
        \/ permissionCacheAdd(p)
        \/ CRUDValidates(p)
        \/ CRUDCallsManager(p)
        \/ CRUDCounts(p)
        \/ CRUDResponds(p)
        \/ GetCols(p)
        \/ Load(p)
        \/ Prepare(p, {})
        \/ BeginTx(p, {})
        \/ Exec(p, {})
        \/ Commit(p, {})

SpecCRUD == InitCRUD /\ [][NextCRUD]_vars

\* The columns and operators of the request that its method's handler looks at are
\* identifiers and operators of the eight.
ColumnsAndOperatorsValid(r) ==
    /\ r.method \in {"POST", "PUT"} => \A col \in DOMAIN r.data : SanitizeName(col)
    /\ r.method \in {"GET", "PUT", "DELETE"} =>
        \A i \in DOMAIN r.filters :
            /\ SanitizeName(r.filters[i].Column)
            /\ r.filters[i].Operator \in Range(SupportedOperators)

\* The table name of the request is an identifier and no internal table.
TableAdmissible(r) ==
    /\ ExtractTableName(r.parts) # <<>>
    /\ SanitizeName(ExtractTableName(r.parts))
    /\ ExtractTableName(r.parts) \notin {TableAPIKeys, TableRoles, TablePermissions}

\* Every check of the request has passed.
ChecksPassed(r) ==
    /\ TableAdmissible(r)
    /\ r.exists = "yes"
    /\ r.perm = "allowed"
    /\ ColumnsAndOperatorsValid(r)

\* C30: the Manager is called, and rows are read or changed, only for a request that
\* passed every check; a request is refused by the first check it fails, in the
\* order table name (400), internal table (403, whatever the role), missing table
\* (404), CheckPermission for the method's operation (error 500, false 403), column
\* names and operators (400).
C30_ChecksBeforeManager ==
    /\ [](LET r == CRUDRequest
              name == ExtractTableName(r.parts)
          IN  r.method # "none" =>
                /\ (r.reached \/ r.pc \in {"manager", "count"}) => ChecksPassed(r)
                /\ r.pc = "done" =>
                    /\ (name = <<>> \/ ~SanitizeName(name)) => r.status = 400
                    /\ (SanitizeName(name) /\ name \in {TableAPIKeys, TableRoles, TablePermissions}) =>
                            r.status = 403 /\ r.exists = "unchecked"
                    /\ (TableAdmissible(r) /\ r.exists = "no") => r.status = 404 /\ r.perm = "unchecked"
                    /\ r.perm = "error" => r.status = 500
                    /\ r.perm = "denied" => r.status = 403
                    /\ (r.perm = "allowed" /\ ~ColumnsAndOperatorsValid(r)) => r.status = 400
                    /\ r.perm # "unchecked" => TableAdmissible(r) /\ r.exists = "yes"
                    /\ r.exists # "unchecked" => TableAdmissible(r))
    /\ [][/\ (rows' # rows \/ call'[1].n # call[1].n \/ txs' # txs) =>
                (CRUDRequest.pc \in {"manager", "count"} /\ ChecksPassed(CRUDRequest))
          /\ (CRUDRequest.pc = "perm" /\ CRUDRequest'.pc # "perm") =>
                /\ acall[1].req.op = "CheckPermission"
                /\ acall[1].req.role = CRUDRequest.role
                /\ acall[1].req.table = CRUDRequest.table
                /\ acall[1].req.operation = MethodOperation(CRUDRequest.method)
                /\ CRUDRequest'.perm =
                        IF acall[1].err # "nil" THEN "error"
                        ELSE IF acall[1].allowed THEN "allowed" ELSE "denied"
          /\ (CRUDRequest'.pc = "perm" /\ CRUDRequest.pc # "perm") =>
                CRUDRequest'.table \in DOMAIN catalog]_vars

\* After a request that changed a row, role r, which may do everything, was refused
\* the table roles.
C30_Witness ==
    /\ CRUDRequest.pc = "done"
    /\ CRUDRequest.table = TableRoles
    /\ CRUDRequest.role = RoleR
    /\ CRUDRequest.method = "GET"
    /\ CRUDRequest.status = 403
    /\ ~CRUDRequest.reached
    /\ call[1].n = 1
    /\ call[1].op = "DeleteWithFilters"
    /\ commitSeq = 1

(***************************************************************************)
(* Configuration and the row limit of a read: Provision, Validate,         *)
(* ParsePagination and handleRead                                          *)
(***************************************************************************)

\* The defaults Provision puts in place of a zero field.
defaultMaxRowsPerPage == 100
defaultAbsoluteMaxRows == 10000

\* A query parameter that is absent (r.URL.Query().Get returns "").
NoParam == <<>>

\* The module before Provision has run.  configured is history: the
\* absolute_max_rows of the configuration.
NoModule ==
    [pc |-> "new", configured |-> 0, MaxRowsPerPage |-> 0, AbsoluteMaxRows |-> 0,
     limitStr |-> NoParam, pageStr |-> NoParam, paginationRequested |-> FALSE,
     limit |-> 0, offset |-> 0, page |-> 0, safetyLimit |-> 0, stmt |-> NoStmt]

Module == IF http = <<>> THEN NoModule ELSE http[1]

\* Provision, and Validate after it: zero fields get their defaults, then a
\* max_rows_per_page that is not positive and a negative absolute_max_rows are refused.
Provision(MaxRows, AbsRows) ==
    /\ Module.pc = "new"
    /\ http = <<>>
    /\ \E m \in MaxRows, a \in AbsRows :
        LET perPage == IF m = 0 THEN defaultMaxRowsPerPage ELSE m
            absolute == IF a = 0 THEN defaultAbsoluteMaxRows ELSE a
        IN  http' = <<[NoModule EXCEPT
                        !.pc = IF perPage <= 0 \/ absolute < 0 THEN "invalid" ELSE "serving",
                        !.configured = a, !.MaxRowsPerPage = perPage,
                        !.AbsoluteMaxRows = absolute]>>
    /\ UNCHANGED <<dbVars, authVars, mgrVars, queries, sqlgen>>

\* ParsePagination(r, maxRowsPerPage, absoluteMaxRows): limit, offset, page and
\* paginationRequested.  A parameter is absent or a number (strconv.Atoi succeeded).
ParsePagination(limitStr, pageStr, maxRowsPerPage) ==
    IF limitStr = NoParam /\ pageStr = NoParam
    THEN [limit |-> 0, offset |-> 0, page |-> 0, paginationRequested |-> FALSE]
    ELSE LET page == IF pageStr # NoParam /\ pageStr[1] > 0 THEN pageStr[1] ELSE 1
             asked == IF limitStr # NoParam /\ limitStr[1] > 0 THEN limitStr[1] ELSE maxRowsPerPage
             limit == IF asked > maxRowsPerPage THEN maxRowsPerPage ELSE asked
         IN  [limit |-> limit, offset |-> (page - 1) * limit, page |-> page,
              paginationRequested |-> TRUE]

\* handleRead from ParsePagination to the query Select builds: the safety limit
\* replaces the limit when no pagination was requested and absoluteMaxRows > 0.
HandleRead(Params) ==
    /\ Module.pc \in {"serving", "read"}
    /\ \E limitStr \in Params, pageStr \in Params :
        LET m == Module
            pg == ParsePagination(limitStr, pageStr, m.MaxRowsPerPage)
            safetyLimit == IF ~pg.paginationRequested /\ m.AbsoluteMaxRows > 0
                           THEN m.AbsoluteMaxRows ELSE pg.limit
        IN  http' = <<[m EXCEPT !.pc = "read", !.limitStr = limitStr, !.pageStr = pageStr,
                        !.paginationRequested = pg.paginationRequested, !.limit = pg.limit,
                        !.offset = pg.offset, !.page = pg.page, !.safetyLimit = safetyLimit,
                        !.stmt = SelectQuery(T, <<>>, <<>>, safetyLimit, pg.offset).stmt]>>
    /\ UNCHANGED <<dbVars, authVars, mgrVars, queries, sqlgen>>

\* Bound: the numbers a configuration or a query parameter holds are -1..LimitMax.
LimitMax == 3

LimitNumbers == -1..LimitMax

LimitParams == {NoParam} \cup {<<n>> : n \in LimitNumbers}

NextLimit ==
    \/ Provision(LimitNumbers, LimitNumbers)
    \/ HandleRead(LimitParams)

SpecLimit == InitWith(1) /\ [][NextLimit]_vars

\* C31 as stated: a read without pagination parameters has no LIMIT when
\* absolute_max_rows was configured as 0, and LIMIT absolute_max_rows when it was
\* configured positive.
C31_AsStated ==
    (Module.pc = "read" /\ Module.limitStr = NoParam /\ Module.pageStr = NoParam) =>
        /\ Module.configured = 0 => Module.stmt.limit = <<>>
        /\ Module.configured > 0 => Module.stmt.limit = <<Module.configured>>

(***************************************************************************)
(* Creating a credential while another caller authenticates                *)
(***************************************************************************)

\* Caller 1 authenticates key k; caller 2 deletes role r, creates it again, creates
\* key k again with an expiration, and authenticates it.
CreateReaders == {1}
CreateWriters == {2}

CreateExpiry == At(5)

CreateRequests ==
    {KReq("AuthenticateAPIKey", KeyK, <<>>, NoTime),
     KReq("DeleteRole", <<>>, RoleR, NoTime),
     KReq("CreateRole", <<>>, RoleR, NoTime),
     KReq("CreateAPIKey", KeyK, RoleR, CreateExpiry)}

InitCreate ==
    InitDB(1) /\ InitAuth(Cardinality(CreateReaders \cup CreateWriters), {RoleR}, StoreWithKey, <<>>, 1)

NextCreate ==
    \/ \E p \in CreateReaders \cup CreateWriters :
        \/ AuthenticateAPIKey(p, CreateRequests)
        \/ authenticateAPIKeyDB(p)
        \/ apiKeyCacheAdd(p)
    \/ \E p \in CreateWriters :
        \/ DeleteRole(p, CreateRequests)
        \/ DeleteRoleAPIKeys(p)
        \/ DeleteRoleRow(p)
        \/ InvalidatePermissionCache(p)
        \/ InvalidateAPIKeyCache(p)
        \/ CreateRole(p, CreateRequests)
        \/ CreateAPIKey(p, CreateRequests)

SpecCreate == InitCreate /\ [][NextCreate]_vars

\* C32 as stated: the AuthenticateAPIKey(k) that a caller makes right after its
\* successful CreateAPIKey(k) succeeds with the role and the expiration of the
\* credential just created.
C32_AsStated ==
    \A p \in DOMAIN acall :
        LET c == acall[p]
        IN  (/\ Returned(c, "AuthenticateAPIKey")
             /\ c.prev.req.op = "CreateAPIKey"
             /\ c.prev.req.key = c.req.key
             /\ c.prev.err = "nil") =>
                /\ c.err = "nil"
                /\ c.apikey.RoleName = c.prev.req.role
                /\ c.apikey.ExpiresAt = c.prev.req.exp

(***************************************************************************)
(* A permission check concurrent with permission mutations                 *)
(***************************************************************************)

\* Caller 1 checks read on t for role r; caller 2 updates or deletes the permission
\* row of r on t, or deletes role r.
PermReaders == {1}
PermWriters == {2}

PermConcRequests ==
    {PReq("CheckPermission", RoleR, T, OperationRead, NoAccess),
     PReq("UpdatePermission", RoleR, T, <<>>, NoAccess),
     PReq("DeletePermission", RoleR, T, <<>>, NoAccess),
     PReq("DeleteRole", RoleR, <<>>, <<>>, NoAccess)}

InitPermConc ==
    InitDB(1) /\ InitAuth(Cardinality(PermReaders \cup PermWriters), {RoleR}, <<>>, StoreWithPermission, 1)

NextPermConc ==
    \/ \E p \in PermReaders :
        \/ CheckPermission(p, PermConcRequests)
        \/ checkPermissionDB(p)
        \/ permissionCacheAdd(p)
    \/ \E p \in PermWriters :
        \/ UpdatePermission(p, PermConcRequests)
        \/ DeletePermission(p, PermConcRequests)
        \/ DeleteRole(p, PermConcRequests)
        \/ DeleteRoleAPIKeys(p)
        \/ DeleteRoleRow(p)
        \/ InvalidatePermissionCache(p)
        \/ InvalidateAPIKeyCache(p)

SpecPermConc == InitPermConc /\ [][NextPermConc]_vars

\* C33 as stated: while no permission mutation is between its statement and its
\* purge, the decision cache holds no live true that the store does not grant.
C33_AsStated ==
    (\A p \in PermWriters : Free(p)) =>
        (LET k == CacheKey(RoleR, T, OperationRead)
         IN  (LRULive(permissionCache, k) /\ permissionCache[k].val) =>
                StoreGrants(RoleR, T, OperationRead))


(***************************************************************************)
(* Concurrent callers of getOrPrepare* on one key (SpecStmtRace)           *)
(***************************************************************************)

\* The goroutines that mutate table t concurrently; each makes one call.
StmtRacers == {1, 2}

\* An Insert and a Delete on table t: every Insert uses the key t:insert, every
\* Delete with this column pattern the key t:delete:where=b.
StmtRaceRequests ==
    { Req("Insert", T, (ColA :> 2), <<>>, <<>>),
      Req("Delete", T, <<>>, (ColB :> 1), <<>>) }

NextStmtRace ==
    \E p \in StmtRacers :
        \/ Call(p, StmtRaceRequests, 1)
        \/ GetCols(p)
        \/ Load(p)
        \/ Prepare(p, {})
        \/ BeginTx(p, {})
        \/ Exec(p, {})
        \/ Commit(p, {})
        \/ Sleep(p)

SpecStmtRace == InitWith(2) /\ [][NextStmtRace]_vars

\* The handles preparedStmts holds.
CachedHandles == {preparedStmts[k] : k \in DOMAIN preparedStmts}

\* C34 as stated: once the concurrent callers have returned, every handle that was
\* prepared is either the one stored under its key or closed, and each caller ran
\* the stored handle or a closed one.
C34_AsStated ==
    (\A p \in StmtRacers : call[p].pc = "done") =>
        /\ \A h \in DOMAIN stmts : h \in CachedHandles \/ stmts[h].closed
        /\ \A p \in StmtRacers :
            call[p].stmt # 0 => (call[p].stmt \in CachedHandles \/ stmts[call[p].stmt].closed)


(***************************************************************************)
(* A handle between its lookup and its execution (SpecCache)               *)
(***************************************************************************)

\* C35 as stated: the handle a getOrPrepare* returned to a mutation is open while
\* the mutation's attempt holds it, up to the Exec that runs it.
C35_AsStated ==
    \A p \in DOMAIN call :
        (UsesCache(call[p]) /\ call[p].pc \in {"begin", "exec"}) =>
            ~stmts[call[p].stmt].closed


(***************************************************************************)
(* Insert while the table's structure changes (SpecAlter)                  *)
(***************************************************************************)

\* The goroutines that insert into table t2 concurrently; each makes one call.
AlterInserters == {1, 2}

AlterRequests == { Req("Insert", T2, (ColB :> 2), <<>>, <<>>) }

\* ALTER TABLE t2 ADD COLUMN c, run by another client of the main database while no
\* transaction on t2 is open; the rows there are get NULL in the new column.
AlterTable ==
    /\ catalog[T2] = InitialCatalog[T2]
    /\ \A p \in DOMAIN txs : \A x \in DOMAIN txs[p] :
            txs[p][x].table = T2 => txs[p][x].state # "open"
    /\ catalog' = [catalog EXCEPT ![T2] = Append(@, ColC)]
    /\ rows' = [rows EXCEPT ![T2] =
                    [i \in DOMAIN @ |-> [@[i] EXCEPT !.vals = (ColC :> NULL) @@ @]]]
    /\ UNCHANGED <<tableSchemas, preparedStmts, stmts, txs, commitSeq, call, dictQueries,
                   authVars, svcVars>>

NextAlter ==
    \/ \E p \in AlterInserters :
        \/ Call(p, AlterRequests, 1)
        \/ GetCols(p)
        \/ Load(p)
        \/ Prepare(p, {})
        \/ BeginTx(p, {})
        \/ Exec(p, {})
        \/ Commit(p, {})
    \/ AlterTable
    \/ \E t \in {T2} : InvalidateTableSchema(t)

SpecAlter == InitWith(2) /\ [][NextAlter]_vars

\* C36 as stated: the values an Insert attempt is about to bind, one per column of
\* its column lookup and in that order, match the columns of the statement it
\* executes in number and order.
C36_AsStated ==
    \A p \in DOMAIN call :
        (call[p].op = "Insert" /\ call[p].pc = "exec") =>
            /\ Len(BoundValues(call[p])) = Len(stmts[call[p].stmt].stmt.cols)
            /\ call[p].columns = stmts[call[p].stmt].stmt.cols


(***************************************************************************)
(* Placeholders and bound values of the filter-based queries (SpecSQL)     *)
(***************************************************************************)

\* The placeholders of a statement in the order of its text: SET, then WHERE.
Placeholders(stmt) ==
    (IF "set" \in DOMAIN stmt THEN [i \in DOMAIN stmt.set |-> stmt.set[i].param] ELSE <<>>)
    \o [i \in DOMAIN stmt.where |-> stmt.where[i].param]

\* C37 as stated: the statement built from a filter list has the placeholders
\* 1..n in this order, n is the number of bound values, and the placeholder of each
\* WHERE term is bound to that term's own value.
C37_AsStated ==
    sqlgen.fn \in Builders =>
        LET q == sqlgen.a
            n == Len(q.values)
        IN  /\ Placeholders(q.stmt) = [i \in 1..n |-> i]
            /\ \A i \in DOMAIN q.stmt.where :
                /\ q.stmt.where[i].param \in 1..n
                /\ q.values[q.stmt.where[i].param] = sqlgen.va[i]


(***************************************************************************)
(* DeleteRole when a statement fails (SpecRoleFail): one caller            *)
(***************************************************************************)

\* DeleteRole whose first authDB.Exec returns an error: the call returns it.
DeleteRoleFails(p, In) ==
    /\ Free(p)
    /\ \E r \in In :
        /\ r.op = "DeleteRole"
        /\ acall' = [acall EXCEPT ![p] = Return(Begin(p, r), "failed")]
    /\ UNCHANGED <<roles, api_keys, permissions, permissionCache, apiKeyCache, now, dbVars, svcVars>>

\* DeleteRole whose second or third authDB.Exec returns an error: the call returns
\* it; what the earlier statements deleted stays deleted, each statement being its
\* own transaction.
DeleteRoleStepFails(p) ==
    /\ acall[p].req.op = "DeleteRole"
    /\ acall[p].pc \in {"keys", "role"}
    /\ acall' = [acall EXCEPT ![p] = Return(acall[p], "failed")]
    /\ UNCHANGED <<roles, api_keys, permissions, permissionCache, apiKeyCache, now, dbVars, svcVars>>

RoleFailRequests ==
    {KReq("AuthenticateAPIKey", KeyK, <<>>, NoTime),
     PReq("CheckPermission", RoleR, T, OperationRead, NoAccess),
     PReq("DeleteRole", RoleR, <<>>, <<>>, NoAccess)}

\* Role r holds the credential k and may read table t.
InitRoleFail == InitDB(1) /\ InitAuth(1, {RoleR}, StoreWithKey, StoreWithPermission, 1)

NextRoleFail ==
    \E p \in {1} :
        \/ AuthenticateAPIKey(p, RoleFailRequests)
        \/ authenticateAPIKeyDB(p)
        \/ apiKeyCacheAdd(p)
        \/ CheckPermission(p, RoleFailRequests)
        \/ checkPermissionDB(p)
        \/ permissionCacheAdd(p)
        \/ DeleteRole(p, RoleFailRequests)
        \/ DeleteRoleAPIKeys(p)
        \/ DeleteRoleRow(p)
        \/ DeleteRoleFails(p, RoleFailRequests)
        \/ DeleteRoleStepFails(p)
        \/ InvalidatePermissionCache(p)
        \/ InvalidateAPIKeyCache(p)

SpecRoleFail == InitRoleFail /\ [][NextRoleFail]_vars

\* C38 as stated: when DeleteRole has returned an error, a live true decision of
\* the cache has its permission row in the store, and a live credential of the
\* cache has its row in the store.
C38_AsStated ==
    \A p \in DOMAIN acall :
        (Returned(acall[p], "DeleteRole") /\ acall[p].err # "nil") =>
            /\ LET k == CacheKey(RoleR, T, OperationRead)
               IN  (LRULive(permissionCache, k) /\ permissionCache[k].val) =>
                        <<RoleR, T>> \in DOMAIN permissions
            /\ LRULive(apiKeyCache, KeyK) => KeyK \in DOMAIN api_keys


(***************************************************************************)
(* The permission-cache key of names that contain ':' (SpecColl)           *)
(***************************************************************************)

\* Role names, as CreateRole accepts them, and table names, as Authorize passes
\* them from the request path: any strings.
RoleA == <<"a">>
RoleAB == <<"a", ":", "b">>
TableC == <<"c">>
TableBC == <<"b", ":", "c">>

CollRoles == {RoleA, RoleAB}
CollTables == {TableC, TableBC}

CollRequests ==
    {PReq("CheckPermission", r, t, o, NoAccess) :
        r \in CollRoles, t \in CollTables, o \in {OperationRead, OperationDelete}}

\* Role a:b may read table c; role a has no permission.
InitColl == InitDB(1) /\ InitAuth(1, CollRoles, <<>>, (<<RoleAB, TableC>> :> ReadOnly), 1)

NextColl ==
    \E p \in {1} :
        \/ CheckPermission(p, CollRequests)
        \/ checkPermissionDB(p)
        \/ permissionCacheAdd(p)

SpecColl == InitColl /\ [][NextColl]_vars

\* C39 as stated: a CheckPermission returns the decision of its own (role, table,
\* operation), which in a store that nothing changes is the store's decision, also
\* when it is served from the cache: no other triple shares its cache key.
C39_AsStated ==
    \A p \in DOMAIN acall :
        LET c == acall[p]
        IN  (Returned(c, "CheckPermission") /\ c.err = "nil") =>
                c.allowed = StoreGrants(c.req.role, c.req.table, c.req.operation)


(***************************************************************************)
(* The Authorizer against an Authorizer without caches (SpecRef): one      *)
(* caller, so every history is sequential; no statement fails              *)
(***************************************************************************)

\* The clock runs from 1 to RefMaxTime.
RefMaxTime == 2

RefRequests ==
    {KReq("AuthenticateAPIKey", KeyK, <<>>, NoTime),
     KReq("RevokeAPIKey", KeyK, <<>>, NoTime),
     KReq("CreateAPIKey", KeyK, RoleR, NoTime),
     KReq("CreateAPIKey", KeyK, RoleR, At(1)),
     PReq("CheckPermission", RoleR, T, OperationRead, NoAccess),
     PReq("CheckPermission", RoleR, T, OperationDrop, NoAccess),
     PReq("CheckPermission", RoleAB, TableC, OperationRead, NoAccess),
     PReq("CheckPermission", RoleA, TableBC, OperationRead, NoAccess),
     PReq("CreatePermission", RoleR, T, <<>>, ReadOnly),
     PReq("UpdatePermission", RoleR, T, <<>>, NoAccess),
     PReq("DeletePermission", RoleR, T, <<>>, NoAccess),
     PReq("CreateRole", RoleR, <<>>, <<>>, NoAccess),
     PReq("DeleteRole", RoleR, <<>>, <<>>, NoAccess)}

\* Roles r, a and a:b; role a:b may read table c.
InitRef ==
    InitDB(1) /\ InitAuth(1, {RoleR, RoleA, RoleAB}, <<>>, (<<RoleAB, TableC>> :> ReadOnly), 1)

NextRef ==
    \/ \E p \in {1} :
        \/ AuthenticateAPIKey(p, RefRequests)
        \/ authenticateAPIKeyDB(p)
        \/ apiKeyCacheAdd(p)
        \/ CreateAPIKey(p, RefRequests)
        \/ RevokeAPIKey(p, RefRequests)
        \/ InvalidateAPIKey(p)
        \/ CheckPermission(p, RefRequests)
        \/ checkPermissionDB(p)
        \/ permissionCacheAdd(p)
        \/ CreatePermission(p, RefRequests)
        \/ UpdatePermission(p, RefRequests)
        \/ DeletePermission(p, RefRequests)
        \/ InvalidatePermissionCache(p)
        \/ CreateRole(p, RefRequests)
        \/ DeleteRole(p, RefRequests)
        \/ DeleteRoleAPIKeys(p)
        \/ DeleteRoleRow(p)
        \/ InvalidateAPIKeyCache(p)
    \/ Tick(RefMaxTime)

SpecRef == InitRef /\ [][NextRef]_vars

\* What an Authorizer without caches returns: authenticateAPIKeyDB at the time t,
\* and checkPermissionDB, on the store as it is.
RefAuthenticate(k, t) ==
    IF ~(k \in DOMAIN api_keys /\ api_keys[k].is_active) THEN [err |-> "invalid", role |-> <<>>]
    ELSE IF api_keys[k].expires_at # NoTime /\ Before(api_keys[k].expires_at[1], t)
    THEN [err |-> "expired", role |-> <<>>]
    ELSE [err |-> "nil", role |-> api_keys[k].role_name]

RefCheck(r) ==
    IF ~HasRow(r.role, r.table) THEN [err |-> "nil", allowed |-> FALSE]
    ELSE IF KnownOperation(r.operation)
    THEN [err |-> "nil", allowed |-> FlagOf(ResolvedRow(r.role, r.table), r.operation)]
    ELSE [err |-> "unknown operation", allowed |-> FALSE]

\* What a returned call and the reference agree on.
AgreesWithRef(c) ==
    /\ Returned(c, "AuthenticateAPIKey") =>
        LET ref == RefAuthenticate(c.req.key, c.read)
        IN  /\ c.err = ref.err
            /\ c.err = "nil" => c.apikey.RoleName = ref.role
    /\ Returned(c, "CheckPermission") =>
        LET ref == RefCheck(c.req)
        IN  /\ c.err = ref.err
            /\ c.err = "nil" => c.allowed = ref.allowed

\* C40 as stated: every AuthenticateAPIKey and CheckPermission that has returned
\* has returned what the reference returns on the store of that moment.
C40_AsStated == \A p \in DOMAIN acall : AgreesWithRef(acall[p])


\* The names without ':'.  A call on such names agrees with the reference in
\* every sequential history.
PlainName(n) == \A i \in DOMAIN n : n[i] # ":"

AgreesOnPlainNames ==
    \A p \in DOMAIN acall :
        (PlainName(acall[p].req.role) /\ PlainName(acall[p].req.table)) => AgreesWithRef(acall[p])

====
